---- MODULE Spec2Model ----
(***************************************************************************)
(* Model of the test-orchestration engine of the prompt evaluation         *)
(* framework: prompt loading, test case generation, role correlation in    *)
(* executePrompt, the response cache, the bounded-concurrency admission    *)
(* loop of processModelTestCases, the JSON extraction of                   *)
(* parseJsonFromResponse and the run summary of runTests.                  *)
(*                                                                         *)
(* Representation of JavaScript values:                                    *)
(*  - a prompt file name (without .txt) is the sequence of its parts       *)
(*    between underscores: user_a is <<"user", "a">>, a is <<"a">>;        *)
(*  - a text (file content, message content) is a sequence of tokens, the  *)
(*    empty text is << >>, and `${x}${y}` is x \o y;                       *)
(*  - null and undefined are written as the empty sequence: every read of  *)
(*    a nullable value in the modelled code is a truthiness test, and the  *)
(*    empty string is as falsy as null;                                    *)
(*  - an environment variable is [defined, chars], chars being the         *)
(*    sequence of its characters.                                          *)
(*                                                                         *)
(* Spec and LiveSpec are the runs with the response cache switched off     *)
(* (ENABLE_RESPONSE_CACHING is not 'true'), its default; CacheSpec is the  *)
(* runs with a cache directory, the cache on or off; ParseSpec applies     *)
(* parseJsonFromResponse to a response.                                    *)
(***************************************************************************)
EXTENDS Integers, Sequences, FiniteSets, TLC

(***************************************************************************)
(* Bounds of the explored inputs.                                          *)
(***************************************************************************)
MaxPromptFiles == 3
MaxDataFiles == 2
MaxConfigured == 2
MaxCases == 4
MaxCacheCases == 2
MaxClock == 1
MaxFragments == 3

Models == {"m1", "m2"}

Null == << >>

Truthy(text) == text # << >>

(***************************************************************************)
(* Prompt and data files the explored directories may hold.                *)
(***************************************************************************)
UserA == <<"user", "a">>
UserB == <<"user", "b">>
LegacyA == <<"a">>
LegacyB == <<"b">>
SystemA == <<"system", "a">>
SystemB == <<"system", "b">>
AssistantA == <<"assistant", "a">>

\* The files of the correlation inputs: one prompt family with every role, a
\* legacy prompt of the same base name and a system prompt of another family.
CorrelationPromptFiles == {UserA, LegacyA, SystemA, SystemB, AssistantA}

\* The files of the scheduling inputs, in directory order.

SchedulingPromptFiles == <<UserA, LegacyA, UserB, SystemA, SystemB, AssistantA>>

DataFileNames == <<"d1", "d2", "d3", "d4">>

\* The text of a non-empty file: one token naming the file.
FileText(name) == << name >>

DataText(name) == << <<"data", name>> >>

DefaultSystemContent == << <<"You are an AI assistant analyzing data. Provide structured analysis based on the document text.">> >>

DefaultUserContent == << <<"Please analyze this document.">> >>

(***************************************************************************)
(* parseInt(string, 10): optional sign, then the longest prefix of digits; *)
(* NaN when there is no digit.  A number is [nan, val].                    *)
(***************************************************************************)
DigitChars == <<"0", "1", "2", "3", "4", "5", "6", "7", "8", "9">>

IsDigit(c) == \E d \in 1..10 : DigitChars[d] = c

DigitVal(c) == (CHOOSE d \in 1..10 : DigitChars[d] = c) - 1

RECURSIVE ParseDigits(_, _, _)
ParseDigits(chars, acc, seen) ==
  IF chars # << >> /\ IsDigit(Head(chars))
  THEN ParseDigits(Tail(chars), acc * 10 + DigitVal(Head(chars)), TRUE)
  ELSE [nan |-> ~seen, val |-> acc]

ParseInt(chars) ==
  IF chars # << >> /\ Head(chars) = "-"
  THEN LET r == ParseDigits(Tail(chars), 0, FALSE)
       IN  [nan |-> r.nan, val |-> 0 - r.val]
  ELSE ParseDigits(chars, 0, FALSE)

\* a >= b for an integer a and a parsed number b: false when b is NaN.
NumGE(a, b) == ~b.nan /\ a >= b.val

DefaultConcurrencyLimit == <<"3">>

\* parseInt(process.env.CONCURRENCY_LIMIT || '3', 10)
ConcurrencyLimitOf(envVar) ==
  ParseInt(IF envVar.defined /\ envVar.chars # << >>
           THEN envVar.chars ELSE DefaultConcurrencyLimit)

(***************************************************************************)
(* loadPrompts: the type and the base name of a prompt file.               *)
(***************************************************************************)
StartsWithRole(name, role) == Len(name) >= 2 /\ name[1] = role

PromptType(name) ==
  IF StartsWithRole(name, "system") THEN "system"
  ELSE IF StartsWithRole(name, "user") THEN "user"
  ELSE IF StartsWithRole(name, "assistant") THEN "assistant"
  ELSE "legacy"

PromptName(name) ==
  IF PromptType(name) # "legacy" THEN Tail(name) ELSE name

\* One entry of the prompts map, in directory order.
LoadPrompts(dir) ==
  [n \in 1..Len(dir) |->
     [key |-> dir[n].file,
      type |-> PromptType(dir[n].file),
      content |-> dir[n].content,
      name |-> PromptName(dir[n].file)]]

LoadData(dir) ==
  [n \in 1..Len(dir) |-> [key |-> dir[n].file, content |-> dir[n].content]]

(***************************************************************************)
(* runTests: the models to test and the generated test cases.              *)
(***************************************************************************)
ModelsToTest(config, avail) == SelectSeq(config, LAMBDA mdl : mdl \in avail)

RECURSIVE ConcatAll(_)
ConcatAll(seqs) ==
  IF seqs = << >> THEN << >> ELSE Head(seqs) \o ConcatAll(Tail(seqs))

PromptCases(mdl, prompt, docs) ==
  [d \in 1..Len(docs) |->
     [model |-> mdl,
      input_user_prompt |-> prompt.key,
      promptContent |-> prompt,
      input_data_file |-> docs[d].key,
      documentContent |-> docs[d].content]]

ModelCases(mdl, allPrompts, docs) ==
  ConcatAll([n \in 1..Len(allPrompts) |->
               IF allPrompts[n].type \in {"system", "assistant"}
               THEN << >>
               ELSE PromptCases(mdl, allPrompts[n], docs)])

GenerateTestCases(mdls, allPrompts, docs) ==
  ConcatAll([k \in 1..Len(mdls) |-> ModelCases(mdls[k], allPrompts, docs)])

\* testCasesByModel: one entry per model, in order of first appearance; a
\* partition lists its test cases by their index in testCases.
RECURSIVE GroupByModel(_, _, _)
GroupByModel(cases, k, groups) ==
  IF k > Len(cases) THEN groups
  ELSE LET mdl == cases[k].model
           at == {g \in 1..Len(groups) : groups[g].model = mdl}
       IN  IF at = {}
           THEN GroupByModel(cases, k + 1,
                             Append(groups, [model |-> mdl, cases |-> <<k>>]))
           ELSE LET g == CHOOSE x \in at : TRUE
                IN  GroupByModel(cases, k + 1,
                      [groups EXCEPT ![g].cases = Append(@, k)])

(***************************************************************************)
(* executePrompt: the messages handed to the adapter.                      *)
(***************************************************************************)
RoleKeys == {"system", "user", "assistant", "legacy"}

EmptyContentMap == [r \in RoleKeys |-> Null]

\* Lines 225-237: prompts with the same base name fill the roles that are
\* still falsy; the active prompt itself is skipped.
RECURSIVE CorrelateRoles(_, _, _, _, _, _)
CorrelateRoles(contentMap, allPrompts, n, baseName, file, input_user_prompt) ==
  IF n > Len(allPrompts) THEN contentMap
  ELSE LET other == allPrompts[n]
           next == IF other.key # input_user_prompt
                      /\ other.name = baseName
                      /\ ~Truthy(contentMap[other.type])
                   THEN [contentMap EXCEPT ![other.type] = other.content \o file]
                   ELSE contentMap
       IN  CorrelateRoles(next, allPrompts, n + 1, baseName, file, input_user_prompt)

\* Lines 239-248: defaults for the required roles.
DefaultFill(contentMap) ==
  [contentMap EXCEPT
     !["system"] = IF Truthy(@) THEN @ ELSE DefaultSystemContent,
     !["user"] = IF Truthy(@) THEN @ ELSE DefaultUserContent]

\* A faulty variant of BuildMessages: the assistant message is pushed first.
BuildMessagesAssistantFirst(contentMap) ==
  (IF Truthy(contentMap["assistant"])
   THEN << [role |-> "assistant", content |-> contentMap["assistant"]] >>
   ELSE << >>)
  \o << [role |-> "system", content |-> contentMap["system"]],
        [role |-> "user", content |-> contentMap["user"]] >>

\* Lines 250-260: system, user, then assistant when there is one.
BuildMessages(contentMap) ==
  << [role |-> "system", content |-> contentMap["system"]],
     [role |-> "user", content |-> contentMap["user"]] >>
  \o (IF Truthy(contentMap["assistant"])
      THEN << [role |-> "assistant", content |-> contentMap["assistant"]] >>
      ELSE << >>)

\* OpenAIAdapter.execute: the prompt becomes a single user message.
AdapterExecute(prompt) == << [role |-> "user", content |-> prompt] >>

ChatMessages(prompt, file, input_user_prompt, allPrompts) ==
  LET enhancedPrompt == prompt.content \o file
      own == [EmptyContentMap EXCEPT ![prompt.type] = enhancedPrompt]
  IN  BuildMessages(DefaultFill(
        CorrelateRoles(own, allPrompts, 1, prompt.name, file, input_user_prompt)))

ExecutePromptMessages(prompt, file, input_user_prompt, allPrompts) ==
  IF prompt.type = "system" \/ prompt.type = "user"
  THEN ChatMessages(prompt, file, input_user_prompt, allPrompts)
  ELSE AdapterExecute(prompt.content \o file)

(***************************************************************************)
(* processTestCase: the prompts recorded in a result (lines 773-797) and   *)
(* the result itself (lines 799-812).                                      *)
(***************************************************************************)
RECURSIVE RecordedPrompts(_, _, _, _)
RecordedPrompts(allPrompts, n, baseName, acc) ==
  IF n > Len(allPrompts) THEN acc
  ELSE LET other == allPrompts[n]
           a1 == IF other.name = baseName /\ other.type = "system"
                 THEN [acc EXCEPT !.input_system_prompt = other.key,
                                  !.foundMatchingSystem = TRUE]
                 ELSE IF other.name = baseName /\ other.type = "assistant"
                 THEN [acc EXCEPT !.input_assistant_prompt = other.key]
                 ELSE acc
           a2 == IF other.type = "system" /\ ~Truthy(a1.fallbackSystemPrompt)
                 THEN [a1 EXCEPT !.fallbackSystemPrompt = other.key]
                 ELSE a1
       IN  RecordedPrompts(allPrompts, n + 1, baseName, a2)

ResultOf(tc, allPrompts) ==
  LET rec == RecordedPrompts(allPrompts, 1, tc.promptContent.name,
               [input_system_prompt |-> Null,
                input_assistant_prompt |-> Null,
                foundMatchingSystem |-> FALSE,
                fallbackSystemPrompt |-> Null])
  IN  [id |-> <<tc.model, tc.input_user_prompt, tc.input_data_file>>,
       model |-> tc.model,
       input_user_prompt |->
         IF tc.promptContent.type = "user" THEN tc.input_user_prompt ELSE Null,
       input_system_prompt |->
         IF ~rec.foundMatchingSystem /\ Truthy(rec.fallbackSystemPrompt)
         THEN rec.fallbackSystemPrompt ELSE rec.input_system_prompt,
       input_assistant_prompt |-> rec.input_assistant_prompt,
       prompt_type |-> tc.promptContent.type,
       prompt_name |-> tc.promptContent.name,
       input_data_file |-> tc.input_data_file]


(***************************************************************************)
(* JSON values and JSON texts.  A JSON text is a sequence of characters,   *)
(* each a one-character string.  A value carries its kind first: null,     *)
(* true and false, a number (its digits; the explored texts hold integers  *)
(* only, no fraction and no exponent), a string (its characters), an array *)
(* (its elements) and an object (its members <<key, value>>, in order).    *)
(***************************************************************************)
JNull == <<"null">>

JTrue == <<"bool", <<"t", "r", "u", "e">>>>

JFalse == <<"bool", <<"f", "a", "l", "s", "e">>>>

JNum(digits) == <<"num", digits>>

JStr(chars) == <<"str", chars>>

JArr(elements) == <<"arr", elements>>

JObj(members) == <<"obj", members>>

\* The truthiness of a parsed value in a JavaScript condition.
JsTruthy(v) ==
  CASE v[1] = "null" -> FALSE
    [] v[1] = "bool" -> v = JTrue
    [] v[1] = "num" -> v[2] \notin {<<"0">>, <<"-", "0">>}
    [] v[1] = "str" -> v[2] # << >>
    [] OTHER -> TRUE

\* obj[key] for an own property, << >> when the value has no such property.
Member(v, key) ==
  IF v[1] = "obj" /\ \E n \in 1..Len(v[2]) : v[2][n][1] = key
  THEN << v[2][CHOOSE n \in 1..Len(v[2]) : v[2][n][1] = key][2] >>
  ELSE << >>

\* arr[0], << >> when there is none.
FirstElement(v) ==
  IF v[1] = "arr" /\ Len(v[2]) > 0 THEN << v[2][1] >> ELSE << >>

(***************************************************************************)
(* JSON.parse.  A parse step answers [ok, val, next]: whether a value was  *)
(* read, the value, and the position after it.  The escapes \b, \f and     *)
(* \uXXXX do not occur in the explored texts and are not read.             *)
(***************************************************************************)
Whitespace == {" ", "\n", "\t", "\r"}

Fail(p) == [ok |-> FALSE, val |-> JNull, next |-> p]

Ok(v, p) == [ok |-> TRUE, val |-> v, next |-> p]

RECURSIVE SkipWs(_, _)
SkipWs(s, p) ==
  IF p <= Len(s) /\ s[p] \in Whitespace THEN SkipWs(s, p + 1) ELSE p

\* The characters of lit stand at position p of s.
Matches(s, p, lit) ==
  /\ p >= 1
  /\ p + Len(lit) - 1 <= Len(s)
  /\ \A n \in 1..Len(lit) : s[p + n - 1] = lit[n]

Unescaped(c) ==
  CASE c = "n" -> "\n"
    [] c = "t" -> "\t"
    [] c = "r" -> "\r"
    [] OTHER -> c

\* p is the position after the opening quote.
RECURSIVE ParseStringChars(_, _, _)
ParseStringChars(s, p, acc) ==
  IF p > Len(s) THEN Fail(p)
  ELSE IF s[p] = "\"" THEN Ok(JStr(acc), p + 1)
  ELSE IF s[p] = "\\"
  THEN IF p + 1 <= Len(s) /\ s[p + 1] \in {"\"", "\\", "/", "n", "t", "r"}
       THEN ParseStringChars(s, p + 2, Append(acc, Unescaped(s[p + 1])))
       ELSE Fail(p)
  ELSE IF s[p] \in {"\n", "\t", "\r"} THEN Fail(p)
  ELSE ParseStringChars(s, p + 1, Append(acc, s[p]))

RECURSIVE DigitsEnd(_, _)
DigitsEnd(s, p) ==
  IF p <= Len(s) /\ IsDigit(s[p]) THEN DigitsEnd(s, p + 1) ELSE p

\* -? (0 | [1-9][0-9]*): a leading zero ends the number.
ParseNumber(s, p) ==
  LET q == IF s[p] = "-" THEN p + 1 ELSE p
      e == IF q <= Len(s) /\ s[q] = "0" THEN q + 1 ELSE DigitsEnd(s, q)
  IN  IF e = q THEN Fail(p) ELSE Ok(JNum(SubSeq(s, p, e - 1)), e)

\* A repeated key keeps its first place and takes the last value.
PutMember(members, key, val) ==
  IF \E n \in 1..Len(members) : members[n][1] = key
  THEN [n \in 1..Len(members) |->
          IF members[n][1] = key THEN <<key, val>> ELSE members[n]]
  ELSE Append(members, <<key, val>>)

RECURSIVE ParseValue(_, _)
RECURSIVE ParseMembers(_, _, _)
RECURSIVE ParseElements(_, _, _)

\* p is the position of the key of the next member.
ParseMembers(s, p, acc) ==
  IF p > Len(s) \/ s[p] # "\"" THEN Fail(p)
  ELSE LET key == ParseStringChars(s, p + 1, << >>)
           colon == SkipWs(s, key.next)
       IN  IF ~key.ok \/ colon > Len(s) \/ s[colon] # ":" THEN Fail(p)
           ELSE LET v == ParseValue(s, colon + 1)
                    e == SkipWs(s, v.next)
                    members == PutMember(acc, key.val[2], v.val)
                IN  IF ~v.ok \/ e > Len(s) THEN Fail(p)
                    ELSE IF s[e] = "}" THEN Ok(JObj(members), e + 1)
                    ELSE IF s[e] = ","
                    THEN ParseMembers(s, SkipWs(s, e + 1), members)
                    ELSE Fail(e)

\* p is the position before the next element.
ParseElements(s, p, acc) ==
  LET v == ParseValue(s, p)
      e == SkipWs(s, v.next)
  IN  IF ~v.ok \/ e > Len(s) THEN Fail(p)
      ELSE IF s[e] = "]" THEN Ok(JArr(Append(acc, v.val)), e + 1)
      ELSE IF s[e] = "," THEN ParseElements(s, e + 1, Append(acc, v.val))
      ELSE Fail(e)

ParseValue(s, p0) ==
  LET p == SkipWs(s, p0)
  IN  IF p > Len(s) THEN Fail(p)
      ELSE IF s[p] = "{"
      THEN LET q == SkipWs(s, p + 1)
           IN  IF q <= Len(s) /\ s[q] = "}" THEN Ok(JObj(<< >>), q + 1)
               ELSE ParseMembers(s, q, << >>)
      ELSE IF s[p] = "["
      THEN LET q == SkipWs(s, p + 1)
           IN  IF q <= Len(s) /\ s[q] = "]" THEN Ok(JArr(<< >>), q + 1)
               ELSE ParseElements(s, q, << >>)
      ELSE IF s[p] = "\"" THEN ParseStringChars(s, p + 1, << >>)
      ELSE IF s[p] = "-" \/ IsDigit(s[p]) THEN ParseNumber(s, p)
      ELSE IF Matches(s, p, <<"n", "u", "l", "l">>) THEN Ok(JNull, p + 4)
      ELSE IF Matches(s, p, JTrue[2]) THEN Ok(JTrue, p + 4)
      ELSE IF Matches(s, p, JFalse[2]) THEN Ok(JFalse, p + 5)
      ELSE Fail(p)

\* JSON.parse(s): [ok, val]; ok is false where JSON.parse throws.
JsonParse(s) ==
  LET r == ParseValue(s, 1)
  IN  IF r.ok /\ SkipWs(s, r.next) = Len(s) + 1
      THEN [ok |-> TRUE, val |-> r.val]
      ELSE [ok |-> FALSE, val |-> JNull]

(***************************************************************************)
(* JSON.stringify(value, null, 2): two spaces of indentation per level.    *)
(***************************************************************************)
Escaped(c) ==
  CASE c = "\"" -> <<"\\", "\"">>
    [] c = "\\" -> <<"\\", "\\">>
    [] c = "\n" -> <<"\\", "n">>
    [] c = "\t" -> <<"\\", "t">>
    [] c = "\r" -> <<"\\", "r">>
    [] OTHER -> << c >>

\* A faulty variant of Quote: the characters are written without escapes.
QuoteRaw(chars) == <<"\"">> \o chars \o <<"\"">>

Quote(chars) ==
  <<"\"">> \o ConcatAll([n \in 1..Len(chars) |-> Escaped(chars[n])]) \o <<"\"">>

Spaces(n) == [k \in 1..n |-> " "]

\* The lines of a non-empty array or object, joined by ",\n".
JoinLines(lines) ==
  ConcatAll([n \in 1..Len(lines) |->
               IF n = 1 THEN lines[n] ELSE <<",", "\n">> \o lines[n]])

RECURSIVE JsonStringify(_, _)
JsonStringify(v, indent) ==
  CASE v[1] = "null" -> <<"n", "u", "l", "l">>
    [] v[1] = "bool" -> v[2]
    [] v[1] = "num" -> v[2]
    [] v[1] = "str" -> Quote(v[2])
    [] v[1] = "arr" ->
         IF v[2] = << >> THEN <<"[", "]">>
         ELSE <<"[", "\n">>
              \o JoinLines([n \in 1..Len(v[2]) |->
                   Spaces(indent + 2) \o JsonStringify(v[2][n], indent + 2)])
              \o <<"\n">> \o Spaces(indent) \o <<"]">>
    [] v[1] = "obj" ->
         IF v[2] = << >> THEN <<"{", "}">>
         ELSE <<"{", "\n">>
              \o JoinLines([n \in 1..Len(v[2]) |->
                   Spaces(indent + 2) \o Quote(v[2][n][1]) \o <<":", " ">>
                   \o JsonStringify(v[2][n][2], indent + 2)])
              \o <<"\n">> \o Spaces(indent) \o <<"}">>

(***************************************************************************)
(* parseJsonFromResponse, lines 300-363.  The content and the text of a    *)
(* response are strings, numbers, booleans, null or absent.                *)
(***************************************************************************)
\* value?.key: << >> for undefined.
OptionalMember(v, key) ==
  IF v = << >> \/ v[1] = JNull THEN << >> ELSE Member(v[1], key)

\* value?.[0]
OptionalFirst(v) ==
  IF v = << >> \/ v[1] = JNull THEN << >> ELSE FirstElement(v[1])

\* a || b
OrElse(a, b) == IF a # << >> /\ JsTruthy(a[1]) THEN a ELSE b

\* Line 303: the characters of
\* response.choices?.[0]?.message?.content || response.choices?.[0]?.text || ''
ResponseText(resp) ==
  LET first == OptionalFirst(Member(resp, <<"choices">>))
      content == OptionalMember(OptionalMember(first, <<"message">>), <<"content">>)
      text == OptionalMember(first, <<"text">>)
  IN  OrElse(content, OrElse(text, << JStr(<< >>) >>))[1][2]

Positions(s, c) == {p \in 1..Len(s) : s[p] = c}

Least(S) == CHOOSE x \in S : \A y \in S : x <= y

Greatest(S) == CHOOSE x \in S : \A y \in S : x >= y

\* text.match(/\{[\s\S]*\}/m) and text.match(/\[[\s\S]*\]/m): from the first
\* opening character to the last closing one; << >> when nothing matches,
\* << span >> otherwise.
MatchSpan(s, open, close) ==
  IF Positions(s, open) # {} /\ Positions(s, close) # {}
     /\ Least(Positions(s, open)) < Greatest(Positions(s, close))
  THEN << SubSeq(s, Least(Positions(s, open)), Greatest(Positions(s, close))) >>
  ELSE << >>

LineTerminators == {"\n", "\r"}

\* ^ and $ of a multiline pattern.
AtLineStart(s, p) == p = 1 \/ s[p - 1] \in LineTerminators

AtLineEnd(s, p) == p = Len(s) + 1 \/ s[p] \in LineTerminators

\* The backtick character, written by name.
Backtick == "backtick"

FenceJson == <<Backtick, Backtick, Backtick, "j", "s", "o", "n", "\n">>

FencePlain == <<Backtick, Backtick, Backtick, "\n">>

FenceClose == <<"\n", Backtick, Backtick, Backtick>>

\* Line 320: the code fence markers are removed: three backticks and json
\* and a line break, or three backticks and a line break, at the start of
\* a line; a line break and three backticks at the end of a line.
RECURSIVE StripFences(_, _)
StripFences(s, p) ==
  IF p > Len(s) THEN << >>
  ELSE IF AtLineStart(s, p) /\ Matches(s, p, FenceJson)
  THEN StripFences(s, p + Len(FenceJson))
  ELSE IF AtLineStart(s, p) /\ Matches(s, p, FencePlain)
  THEN StripFences(s, p + Len(FencePlain))
  ELSE IF Matches(s, p, FenceClose) /\ AtLineEnd(s, p + Len(FenceClose))
  THEN StripFences(s, p + Len(FenceClose))
  ELSE << s[p] >> \o StripFences(s, p + 1)

\* Line 341: text.replace(/'/g, '"')
DoubleQuotes(s) == [p \in 1..Len(s) |-> IF s[p] = "'" THEN "\"" ELSE s[p]]

\* Line 343: fixedText.replace(/,\s*(\}|\])/g, '$1')
RECURSIVE DropTrailingCommas(_, _)
DropTrailingCommas(s, p) ==
  IF p > Len(s) THEN << >>
  ELSE LET q == SkipWs(s, p + 1)
       IN  IF s[p] = "," /\ q <= Len(s) /\ s[q] \in {"}", "]"}
           THEN << s[q] >> \o DropTrailingCommas(s, q + 1)
           ELSE << s[p] >> \o DropTrailingCommas(s, p + 1)

RECURSIVE LineEnd(_, _)
LineEnd(s, p) == IF AtLineEnd(s, p) THEN p ELSE LineEnd(s, p + 1)

\* Line 345: fixedText.replace(/\/\/.*$/gm, '')
RECURSIVE DropComments(_, _)
DropComments(s, p) ==
  IF p > Len(s) THEN << >>
  ELSE IF Matches(s, p, <<"/", "/">>)
  THEN DropComments(s, LineEnd(s, p))
  ELSE << s[p] >> \o DropComments(s, p + 1)

Failed1 == [ok |-> FALSE, val |-> JNull]

\* Approach 1, lines 308-312.
Approach1(text) == JsonParse(text)

\* Approach 2, lines 315-326.
Approach2(text) ==
  LET jsonMatch == MatchSpan(text, "{", "}")
  IN  IF jsonMatch = << >> THEN Failed1
      ELSE JsonParse(StripFences(jsonMatch[1], 1))

\* Approach 3, lines 329-336.
Approach3(text) ==
  LET arrayMatch == MatchSpan(text, "[", "]")
  IN  IF arrayMatch = << >> THEN Failed1 ELSE JsonParse(arrayMatch[1])

\* Approach 4, lines 339-354.
Approach4(text) ==
  LET fixedText == DropComments(DropTrailingCommas(DoubleQuotes(text), 1), 1)
      fixedJsonMatch == MatchSpan(fixedText, "{", "}")
  IN  IF fixedJsonMatch = << >> THEN Failed1 ELSE JsonParse(fixedJsonMatch[1])

\* A faulty variant of ParseJsonFromResponse: the array pattern is tried
\* before the object pattern.
ParseJsonArrayFirst(resp) ==
  LET text == ResponseText(resp)
  IN  IF Approach1(text).ok THEN Approach1(text).val
      ELSE IF Approach3(text).ok THEN Approach3(text).val
      ELSE IF Approach2(text).ok THEN Approach2(text).val
      ELSE IF Approach4(text).ok THEN Approach4(text).val
      ELSE JStr(text)

\* The value returned: the value of the first return statement reached, the
\* text itself (line 358) when none is.
ParseJsonFromResponse(resp) ==
  LET text == ResponseText(resp)
  IN  IF Approach1(text).ok THEN Approach1(text).val
      ELSE IF Approach2(text).ok THEN Approach2(text).val
      ELSE IF Approach3(text).ok THEN Approach3(text).val
      ELSE IF Approach4(text).ok THEN Approach4(text).val
      ELSE JStr(text)

(***************************************************************************)
(* The evaluator (src/src/config.js, lines 128-267) and evaluateResponse   *)
(* (lines 372-400), with the options runTests passes (lines 719-728).  A   *)
(* name and a term are sequences of characters.  A metric is a whole       *)
(* number of the unit 1/MetricUnit, in which every value the default       *)
(* evaluator computes from these options is exact.                         *)
(***************************************************************************)
\* Lines 720-726: evaluationOptions.expectedFields.
ExpectedFields ==
  << [alternateNames |->
       <<<<"m", "a", "i", "n", "_", "p", "o", "i", "n", "t", "s">>,
         <<"m", "a", "i", "n", "P", "o", "i", "n", "t", "s">>,
         <<"k", "e", "y", "_", "p", "o", "i", "n", "t", "s">>,
         <<"k", "e", "y", "P", "o", "i", "n", "t", "s">>>>,
     description |-> "key points"],
     [alternateNames |->
       <<<<"s", "u", "m", "m", "a", "r", "y">>,
         <<"o", "v", "e", "r", "v", "i", "e", "w">>>>,
     description |-> "summary"],
     [alternateNames |->
       <<<<"a", "n", "a", "l", "y", "s", "i", "s">>,
         <<"e", "v", "a", "l", "u", "a", "t", "i", "o", "n">>>>,
     description |-> "analysis"],
     [alternateNames |->
       <<<<"r", "e", "c", "o", "m", "m", "e", "n", "d", "a", "t", "i", "o", "n", "s">>,
         <<"s", "u", "g", "g", "e", "s", "t", "i", "o", "n", "s">>>>,
     description |-> "recommendations"],
     [alternateNames |->
       <<<<"d", "e", "t", "a", "i", "l", "s">>,
         <<"s", "p", "e", "c", "i", "f", "i", "c", "s">>>>,
     description |-> "details"] >>

\* Line 727: evaluationOptions.relevantTerms.
RelevantTerms ==
  << <<"a", "n", "a", "l", "y", "s", "i", "s">>,
     <<"f", "i", "l", "e">>,
     <<"t", "e", "x", "t">>,
     <<"c", "o", "n", "t", "e", "n", "t">>,
     <<"i", "n", "f", "o", "r", "m", "a", "t", "i", "o", "n">>,
     <<"i", "m", "p", "o", "r", "t", "a", "n", "t">>,
     <<"k", "e", "y">>,
     <<"c", "r", "i", "t", "i", "c", "a", "l">> >>
MetricUnit == Len(ExpectedFields) * Len(RelevantTerms) * 10

\* string.includes(term)
Includes(s, term) ==
  \E p \in 0..(Len(s) - Len(term)) : SubSeq(s, p + 1, p + Len(term)) = term

\* The capital letters of the explored texts and their small letters.
LowerCase(c) ==
  CASE c = "K" -> "k"
    [] c = "P" -> "p"
    [] OTHER -> c

\* string.toLowerCase()
ToLowerCase(s) == [p \in 1..Len(s) |-> LowerCase(s[p])]

\* The items of an array or the members of an object, joined by ",".
JoinItems(items) ==
  ConcatAll([n \in 1..Len(items) |->
               IF n = 1 THEN items[n] ELSE <<",">> \o items[n]])

\* JSON.stringify(value): no white space between the tokens.
RECURSIVE JsonStringifyFlat(_)
JsonStringifyFlat(v) ==
  CASE v[1] = "null" -> <<"n", "u", "l", "l">>
    [] v[1] = "bool" -> v[2]
    [] v[1] = "num" -> v[2]
    [] v[1] = "str" -> Quote(v[2])
    [] v[1] = "arr" ->
         <<"[">> \o JoinItems([n \in 1..Len(v[2]) |-> JsonStringifyFlat(v[2][n])])
         \o <<"]">>
    [] v[1] = "obj" ->
         <<"{">>
         \o JoinItems([n \in 1..Len(v[2]) |->
              Quote(v[2][n][1]) \o <<":">> \o JsonStringifyFlat(v[2][n][2])])
         \o <<"}">>

RawTextKey == <<"r", "a", "w", "_", "t", "e", "x", "t">>

\* evaluate, lines 130-138: a string is parsed, and wrapped as the raw text
\* when it is no JSON text; every other value is taken as it is.
ParsedResult(result) ==
  IF result[1] = "str"
  THEN IF JsonParse(result[2]).ok
       THEN JsonParse(result[2]).val
       ELSE JObj(<< <<RawTextKey, result>> >>)
  ELSE result

\* Lines 185 and 243: field.alternateNames.some(name => result[name] !==
\* undefined), for a result that is not null: an object has the properties
\* that are its members, and no other value has a property of these names.
HasField(result, field) ==
  \E n \in 1..Len(field.alternateNames) :
    Member(result, field.alternateNames[n]) # << >>

ZeroMetrics ==
  [accuracy |-> 0, completeness |-> 0, relevance |-> 0, overall |-> 0,
   errors |-> << >>]

\* quantitativeEvaluation, lines 167-210.  Reading a property of null throws
\* at line 185, and the catch block returns the metrics as they are then.
QuantitativeEvaluation(result) ==
  IF result = JNull
  THEN [ZeroMetrics EXCEPT !.errors = << "TypeError" >>]
  ELSE LET presentFields ==
             Cardinality({n \in 1..Len(ExpectedFields) :
                            HasField(result, ExpectedFields[n])})
           responseText == ToLowerCase(JsonStringifyFlat(result))
           relevantTermsFound ==
             Cardinality({n \in 1..Len(RelevantTerms) :
                            Includes(responseText, RelevantTerms[n])})
           completeness == (presentFields * MetricUnit) \div Len(ExpectedFields)
           relevance == (relevantTermsFound * MetricUnit) \div Len(RelevantTerms)
           accuracy == (completeness + relevance) \div 2
       IN  [accuracy |-> accuracy,
            completeness |-> completeness,
            relevance |-> relevance,
            overall |-> (accuracy * 4 + completeness * 4 + relevance * 2) \div 10,
            errors |-> << >>]

\* qualitativeEvaluation, lines 220-267.
QualitativeEvaluation(result) ==
  IF result = JNull
  THEN [strengths |-> << >>,
        weaknesses |-> << "Error processing the response format" >>,
        suggestions |-> << "Ensure response is properly formatted as requested" >>]
  ELSE LET has == [n \in 1..Len(ExpectedFields) |-> HasField(result, ExpectedFields[n])]
           strengths ==
             ConcatAll([n \in 1..Len(ExpectedFields) |->
               IF has[n] THEN << <<"Contains", ExpectedFields[n].description>> >>
               ELSE << >>])
           weaknesses ==
             ConcatAll([n \in 1..Len(ExpectedFields) |->
               IF has[n] THEN << >>
               ELSE << <<"Missing", ExpectedFields[n].description>> >>])
       IN  [strengths |-> strengths,
            weaknesses |-> weaknesses,
            suggestions |->
              (IF Len(weaknesses) > 0
               THEN << "Ensure all expected elements are included in the response" >>
               ELSE << >>)
              \o (IF 2 * Len(strengths) < Len(ExpectedFields)
                  THEN << "Provide more comprehensive information in the response" >>
                  ELSE << >>)]

\* evaluate, lines 128-157, without custom evaluators.
Evaluate(result) ==
  [parsedResult |-> ParsedResult(result),
   quantitative |-> QuantitativeEvaluation(ParsedResult(result)),
   qualitative |-> QualitativeEvaluation(ParsedResult(result))]

\* evaluateResponse, lines 372-400: the four metrics are copied, and the
\* errors of the evaluator are not.
EvaluateResponse(parsedResponse) ==
  LET evaluated == Evaluate(parsedResponse)
  IN  [qualitative |-> evaluated.qualitative,
       quantitative |->
         [accuracy |-> evaluated.quantitative.accuracy,
          completeness |-> evaluated.quantitative.completeness,
          relevance |-> evaluated.quantitative.relevance,
          overall |-> evaluated.quantitative.overall]]

\* getCSVDataMap: errors_count is quantitative.errors?.length || 0
ErrorsCount(quantitative) ==
  IF "errors" \in DOMAIN quantitative THEN Len(quantitative.errors) ELSE 0


(***************************************************************************)
(* generateReport (src/unnamed/part_002, lines 408-529).  A printed number *)
(* is its count of fraction digits and its value n in units of 10^-digits: *)
(* "0.1467" is [digits |-> 4, n |-> 1467].  A label and a file name are    *)
(* sequences of tokens, and a template text is their concatenation.        *)
(***************************************************************************)
FRACTION_DIGITS == 4

\* Lines 420 and 525: the literal fraction digits of the summary rows and of
\* the prompt comparison.
LiteralDigits == 2

\* A number of digits * 10^-digits halfway between two printed values.  The
\* double nearest to such a number lies a little above or below it, and
\* toFixed rounds the double; the explored results hold no such number.
ExactlyHalfway(num, den, digits) ==
  (2 * num * 10^digits) % (2 * den) = den

\* A faulty variant of ToFixed: the digits past the last one are cut off.
ToFixedCutOff(num, den, digits) ==
  [digits |-> digits, n |-> (num * 10^digits) \div den]

\* Number.prototype.toFixed(digits) of the non-negative number num / den: the
\* printed value nearest to it.
ToFixed(num, den, digits) ==
  [digits |-> digits, n |-> (2 * num * 10^digits + den) \div (2 * den)]

\* Lines 437-443 and 502-508: the sums of the four metrics of a group.
RECURSIVE Sums(_, _)
Sums(quantitative, k) ==
  IF k = 0
  THEN [overall |-> 0, accuracy |-> 0, completeness |-> 0, relevance |-> 0]
  ELSE LET sum == Sums(quantitative, k - 1)
           item == quantitative[k]
       IN  [overall |-> sum.overall + item.overall,
            accuracy |-> sum.accuracy + item.accuracy,
            completeness |-> sum.completeness + item.completeness,
            relevance |-> sum.relevance + item.relevance]

\* Lines 436-450 with 462, and 500-515 with 525: the sums divided by the
\* count of the group, printed.
Averages(quantitative, digits) ==
  LET count == Len(quantitative)
      sums == Sums(quantitative, count)
  IN  [overall |-> ToFixed(sums.overall, count * MetricUnit, digits),
       accuracy |-> ToFixed(sums.accuracy, count * MetricUnit, digits),
       completeness |-> ToFixed(sums.completeness, count * MetricUnit, digits),
       relevance |-> ToFixed(sums.relevance, count * MetricUnit, digits)]

\* The keys of an object in insertion order: each key where it comes first.
RECURSIVE FirstOccurrences(_, _, _)
FirstOccurrences(keys, k, acc) ==
  IF k > Len(keys)
  THEN acc
  ELSE FirstOccurrences(keys, k + 1,
         IF \E j \in 1..Len(acc) : acc[j] = keys[k]
         THEN acc ELSE Append(acc, keys[k]))

\* Lines 426-433 and 468-497: groups[key].push(result.quantitative), the
\* groups in the order of Object.entries.
GroupsOf(keys, reportResults) ==
  LET order == FirstOccurrences(keys, 1, << >>)
  IN  [g \in 1..Len(order) |->
        LET members == SelectSeq([k \in 1..Len(keys) |-> k],
                                 LAMBDA k : keys[k] = order[g])
        IN  [key |-> order[g],
             quantitative |->
               [j \in 1..Len(members) |-> reportResults[members[j]].quantitative]]]

\* A value in a template literal: null reads "null".
TemplateText(value) == IF value = Null THEN <<"null">> ELSE value

\* Lines 470-489: the display key of a result.
DisplayKey(result) ==
  LET displayKey ==
        (IF Truthy(result.input_system_prompt)
         THEN <<"System: ">> \o result.input_system_prompt \o <<" ">>
         ELSE << >>)
        \o (IF Truthy(result.input_user_prompt)
            THEN <<"User: ">> \o result.input_user_prompt \o <<" ">>
            ELSE << >>)
        \o (IF Truthy(result.input_assistant_prompt)
            THEN <<"Assistant: ">> \o result.input_assistant_prompt
            ELSE << >>)
  IN  IF displayKey = << >>
      THEN <<"Legacy: ">> \o TemplateText(result.input_user_prompt)
      ELSE displayKey

ModelGroups(reportResults) ==
  GroupsOf([k \in 1..Len(reportResults) |-> reportResults[k].model],
           reportResults)

PromptGroups(reportResults) ==
  GroupsOf([k \in 1..Len(reportResults) |-> DisplayKey(reportResults[k])],
           reportResults)

\* Lines 419-422: the rows of the summary.
SummaryRows(reportResults) ==
  [k \in 1..Len(reportResults) |->
    [model |-> reportResults[k].model,
     prompt |-> TemplateText(reportResults[k].input_user_prompt),
     document |-> reportResults[k].input_data_file,
     metrics |-> Averages(<< reportResults[k].quantitative >>, LiteralDigits)]]

\* Lines 458-463: the rows of the model comparison.
ModelRows(reportResults) ==
  LET groups == ModelGroups(reportResults)
  IN  [g \in 1..Len(groups) |->
        [model |-> groups[g].key,
         metrics |-> Averages(groups[g].quantitative, FRACTION_DIGITS)]]

\* Lines 520-526: the rows of the prompt comparison.
PromptRows(reportResults) ==
  LET groups == PromptGroups(reportResults)
  IN  [g \in 1..Len(groups) |->
        [prompt |-> groups[g].key,
         metrics |-> Averages(groups[g].quantitative, LiteralDigits)]]

GenerateReportText(reportResults) ==
  [summaryRows |-> SummaryRows(reportResults),
   modelRows |-> ModelRows(reportResults),
   promptRows |-> PromptRows(reportResults)]

\* processTestCase, lines 799-812: the result with its evaluation.
ScoredResult(tc, allPrompts, evaluated) ==
  LET result == ResultOf(tc, allPrompts)
  IN  [id |-> result.id,
       model |-> result.model,
       input_user_prompt |-> result.input_user_prompt,
       input_system_prompt |-> result.input_system_prompt,
       input_assistant_prompt |-> result.input_assistant_prompt,
       prompt_type |-> result.prompt_type,
       prompt_name |-> result.prompt_name,
       input_data_file |-> result.input_data_file,
       quantitative |-> evaluated.quantitative,
       qualitative |-> evaluated.qualitative]


(***************************************************************************)
(* The correlator (src/src/correlator.js, lines 19-174).  An id, a name    *)
(* and a path are sequences of tokens.  A correlation entry carries the    *)
(* id and the fields of the call; quantitative, qualitative and timestamp  *)
(* are copied from the call as they are and are left out.  A file holds    *)
(* the value whose JSON text was written to it.                            *)
(***************************************************************************)
\* new Date().toISOString() at the millisecond t of the explored second.
ToISOString(t) == <<"T00", ":", "00", ":", "00", ".", "00", DigitChars[t + 1], "Z">>

\* createCorrelationId, lines 19-22.
CreateCorrelationId(modelId, input_data_file, input_user_prompt, t) ==
  modelId \o <<"__", input_data_file, "__">> \o input_user_prompt
  \o <<"__">> \o ToISOString(t)

\* Lines 50-59: the entry of a call.
EntryOf(correlation, correlationId) ==
  [id |-> correlationId,
   modelId |-> correlation.modelId,
   input_data_file |-> correlation.input_data_file,
   input_user_prompt |-> correlation.input_user_prompt,
   resultPath |-> correlation.resultPath]

\* modelId.split('/')[0]
RECURSIVE FirstSegment(_)
FirstSegment(modelId) ==
  IF modelId = << >> \/ Head(modelId) = "/"
  THEN << >>
  ELSE <<Head(modelId)>> \o FirstSegment(Tail(modelId))

\* correlationId.replace(/[:.]/g, '-')
Dashed(correlationId) ==
  [n \in 1..Len(correlationId) |->
     IF correlationId[n] \in {":", "."} THEN "-" ELSE correlationId[n]]

\* Lines 67 and 73: the directory and the name of the correlation file of an
\* entry, under its result path.
CorrelationDirName(modelId) == <<"correlation_">> \o FirstSegment(modelId)

CorrelationFileName(correlationId) == Dashed(correlationId) \o <<".json">>

\* fs.writeFile: the file of that directory and name is created or replaced.
WriteFile(files, dir, sub, name, content) ==
  {f \in files : ~(f.dir = dir /\ f.sub = sub /\ f.name = name)}
  \cup {[dir |-> dir, sub |-> sub, name |-> name, content |-> content]}

\* Lines 81-87: the entries of the master file, none when there is no file.
ReadMaster(directory) == directory.master

\* Lines 90-91: the entry is pushed and the list replaces the master file.
WriteMaster(directory, masterCorrelations, entry) ==
  [directory EXCEPT !.master = Append(masterCorrelations, entry)]

\* string.startsWith and string.includes on a name of tokens.
StartsWith(name, token) == name # << >> /\ Head(name) = token

IncludesToken(name, token) == \E n \in 1..Len(name) : name[n] = token

\* getAllCorrelations, lines 108-141: the entries of every file whose name
\* includes correlation_index_, of every directory of RESULTS_DIR whose name
\* starts with run_.  index holds the files of the directories of
\* RESULTS_DIR that recordCorrelation did not write, in the order they are
\* read.  Of what recordCorrelation wrote, the master file is an entry of
\* RESULTS_DIR named correlations.json, and a result path holds a directory
\* named correlation_ and the model, with the correlation files in it:
\* no name of these passes the two filters, so nothing of it is read.
GetAllCorrelations(index, directory) ==
  ConcatAll([n \in 1..Len(index) |->
    IF /\ StartsWith(index[n].dir, "run_")
       /\ IncludesToken(index[n].name, "correlation_index_")
    THEN index[n].content
    ELSE << >>])

\* Array.prototype.find: the first entry of that id, or null.
Find(entries, correlationId) ==
  LET hits == SelectSeq(entries, LAMBDA entry : entry.id = correlationId)
  IN  IF hits = << >> THEN Null ELSE Head(hits)

\* getCorrelationById, lines 171-174.
GetCorrelationById(index, directory, correlationId) ==
  Find(GetAllCorrelations(index, directory), correlationId)


(***************************************************************************)
(* The response cache (src/utils/cache-utils.js).                          *)
(***************************************************************************)
\* A faulty variant of CachingEnabled: any value of the variable enables the cache.
CachingEnabledWhenSet(envVar) == envVar.defined

\* CONFIGURATION.performance.caching.enabled:
\* process.env.ENABLE_RESPONSE_CACHING === 'true'
CachingEnabled(envVar) ==
  envVar.defined /\ envVar.chars = <<"t", "r", "u", "e">>

\* The hex digest of a content, kept symbolic: equal contents have equal
\* digests, and nothing is derived from two digests being different.
Md5Hex(content) == <<"md5", content>>

\* Lines 15-21 serialise an object of five fields, each written under its
\* own key; the serialised object is kept as the record of these fields.
GenerateCacheKey(model, prompt, data) ==
  Md5Hex([model |-> model,
          promptType |-> prompt.type,
          promptName |-> prompt.name,
          promptContent |-> prompt.content,
          data |-> data])

\* The cache directory maps the key of a cache file to the file: its text,
\* and as history the value saveToCache was given (<< >> when the text was
\* not written by saveToCache) and the messages that value answered.
\* A response is [value, madeFor]: the JSON value and, as history, the
\* messages it answered.
EmptyDirectory == << >>

\* saveToCache: the file is written, or the error of ensureDir or writeFile
\* is caught and the directory is as it was.
SaveToCache(dir, cacheKey, response, writeOk) ==
  IF writeOk
  THEN (cacheKey :> [text |-> JsonStringify(response.value, 0),
                     saved |-> << response.value >>,
                     madeFor |-> response.madeFor]) @@ dir
  ELSE dir

\* A faulty variant of GetFromCache: a file that cannot be read or parsed is
\* answered with an empty object instead of null.
GetFromCacheLenient(dir, cacheKey, readOk) ==
  IF cacheKey \notin DOMAIN dir THEN Null
  ELSE LET parsedFile == JsonParse(dir[cacheKey].text)
       IN  IF readOk /\ parsedFile.ok
           THEN << [value |-> parsedFile.val, madeFor |-> dir[cacheKey].madeFor] >>
           ELSE << [value |-> JObj(<< >>), madeFor |-> dir[cacheKey].madeFor] >>

\* getFromCache: null when the file is not there, when readFile throws and
\* when JSON.parse throws; the parsed value otherwise.
GetFromCache(dir, cacheKey, readOk) ==
  IF cacheKey \notin DOMAIN dir THEN Null
  ELSE LET parsedFile == JsonParse(dir[cacheKey].text)
       IN  IF readOk /\ parsedFile.ok
           THEN << [value |-> parsedFile.val, madeFor |-> dir[cacheKey].madeFor] >>
           ELSE Null

\* executePrompt line 140: if (cachedResponse)
CachedResponseTruthy(cachedResponse) ==
  cachedResponse # Null /\ JsTruthy(cachedResponse[1].value)

(***************************************************************************)
(* OpenAIAdapter.chat, lines 141-160: the parsed body of the server's      *)
(* answer, with the measured time as usage when the body brings none.      *)
(***************************************************************************)
AdapterData(body, elapsed) ==
  LET usage == Member(body, <<"usage">>)
  IN  IF usage # << >> /\ JsTruthy(usage[1]) THEN body
      ELSE JObj(PutMember(body[2], <<"usage">>,
                  JObj(<< << <<"completion_ms">>, JNum(elapsed) >> >>)))

\* Bodies a server answers with: a chat completion whose content is a JSON
\* text, and a text completion with a line break and a backslash, without
\* usage.
ChatBody ==
  JObj(<< << <<"choices">>,
             JArr(<< JObj(<< << <<"message">>,
                                JObj(<< << <<"content">>,
                                           JStr(<<"{", "\"", "a", "\"", ":", "1", "}">>) >> >>) >> >>) >>) >>,
          << <<"usage">>, JObj(<< << <<"completion_ms">>, JNum(<<"5">>) >> >>) >> >>)

TextBody ==
  JObj(<< << <<"choices">>,
             JArr(<< JObj(<< << <<"text">>, JStr(<<"a", "\n", "\\", "b">>) >> >>) >>) >> >>)

ServerBodies == {ChatBody, TextBody}

ElapsedTimes == {<<"0">>, <<"7">>}

(***************************************************************************)
(* The state of one run of runTests.                                       *)
(***************************************************************************)
VARIABLES
  env,               \* process.env.CONCURRENCY_LIMIT
  configured,        \* CONFIGURATION.models.default
  available,         \* the model ids the server lists
  promptDir,         \* the .txt files of the prompts directory, in readdir order
  dataDir,           \* the .txt files of the data directory, in readdir order
  pc,                \* position of runTests
  prompts,           \* loadPrompts()
  data,              \* loadData()
  testCases,         \* the generated test cases
  concurrencyLimit,  \* parseInt(CONCURRENCY_LIMIT || '3')
  testCasesByModel,  \* the partitions, in Object.entries order
  m,                 \* index of the partition being processed
  i,                 \* loop index of processModelTestCases
  awaited,           \* the promises the scheduler is suspended on
  inProgress,        \* the inProgress set of the current partition
  modelResults,      \* the results array of processModelTestCases
  allResults,        \* allResults of runTests
  results,           \* results of runTests
  summary,           \* the printed test statistics, << >> when none
  st,                \* per test case: position of its processTestCase call
  started,           \* per test case: number of processTestCase calls
  sent,              \* per test case: the messages handed to the adapter
  cachingEnv,        \* process.env.ENABLE_RESPONSE_CACHING
  cacheDir,          \* the files of the cache directory
  response,          \* per test case: the response executePrompt holds
  cacheLog,          \* per test case: what its cache calls met and did
  now,               \* the clock read by new Date()
  timestamp,         \* per test case: the timestamp of its result
  parseArg,          \* the response given to parseJsonFromResponse
  parsed,            \* what parseJsonFromResponse returned, << >> before
  sink,              \* per test case: what saveIndividualResult has done
  evaluation,        \* what evaluateResponse computed, << >> before
  reportArg,         \* the results given to generateReport
  report,            \* the tables generateReport wrote, << >> before
  correlations,      \* the arguments of the recordCorrelation calls
  indexFiles,        \* the correlation index files of the run directories
  recording,         \* per recordCorrelation call: its position and locals
  resultsDir,        \* the master file and the correlation files written
  query              \* what the correlation queries returned, << >> before

vars == <<env, configured, available, promptDir, dataDir, pc, prompts, data,
          testCases, concurrencyLimit, testCasesByModel, m, i, awaited,
          inProgress, modelResults, allResults, results, summary, st,
          started, sent, cachingEnv, cacheDir, response, cacheLog, now,
          timestamp, parseArg, parsed, sink, evaluation, reportArg, report,
          correlations, indexFiles, recording, resultsDir, query>>

inputVars == <<env, configured, available, promptDir, dataDir, cachingEnv,
               parseArg, reportArg, correlations, indexFiles>>

cacheVars == <<cacheDir, response, cacheLog, now, timestamp>>

libVars == <<evaluation, report, recording, resultsDir, query>>

runVars == <<pc, m, i, awaited, inProgress, modelResults, allResults, results,
             summary, st, started, sent, sink>>

loadedVars == <<prompts, data, testCases, concurrencyLimit, testCasesByModel>>

(***************************************************************************)
(* The explored inputs.                                                    *)
(***************************************************************************)
SeqsUpTo(S, n) == UNION {[1..k -> S] : k \in 0..n}

Injective(f) == \A x, y \in DOMAIN f : x # y => f[x] # f[y]

Unset == [defined |-> FALSE, chars |-> << >>]

EnvOf(chars) == [defined |-> TRUE, chars |-> chars]

EnvValues ==
  {Unset} \cup {EnvOf(c) : c \in {<< >>, <<"a", "b", "c">>, <<"0">>,
                                  <<"-", "1">>, <<"1">>, <<"2">>}}

\* Directories of files with text.
SchedulingPromptDirs ==
  {[k \in 1..n |-> [file |-> SchedulingPromptFiles[k],
                    content |-> FileText(SchedulingPromptFiles[k])]] :
     n \in 0..MaxPromptFiles}

SchedulingDataDirs ==
  {[k \in 1..n |-> [file |-> DataFileNames[k],
                    content |-> DataText(DataFileNames[k])]] :
     n \in 0..MaxDataFiles}

\* Every order of every choice of prompt files, each file empty or not.
PromptFileOrders ==
  {names \in SeqsUpTo(CorrelationPromptFiles, MaxPromptFiles) : Injective(names)}

CorrelationPromptDirs ==
  UNION {{[k \in DOMAIN names |->
             [file |-> names[k],
              content |-> IF k \in empty THEN << >> ELSE FileText(names[k])]] :
            empty \in SUBSET DOMAIN names} :
         names \in PromptFileOrders}

CorrelationDataDirs ==
  {<< [file |-> "d1", content |-> c] >> : c \in {<< >>, DataText("d1")}}

\* Any configuration, server, limit and number of files, all files with text.
SchedulingInputs ==
  [env : EnvValues,
   configured : SeqsUpTo(Models, MaxConfigured),
   available : SUBSET Models,
   promptDir : SchedulingPromptDirs,
   dataDir : SchedulingDataDirs]

\* Any prompt corpus and an empty or non-empty document, run one case at a time.
CorrelationInputs ==
  [env : {EnvOf(<<"1">>)},
   configured : {<<"m1">>},
   available : {{"m1"}},
   promptDir : CorrelationPromptDirs,
   dataDir : CorrelationDataDirs]

CasesOfInput(inp) ==
  GenerateTestCases(ModelsToTest(inp.configured, inp.available),
                    LoadPrompts(inp.promptDir), LoadData(inp.dataDir))

Inputs ==
  {inp \in SchedulingInputs \cup CorrelationInputs :
     Len(CasesOfInput(inp)) <= MaxCases}

\* The results directory before anything is recorded in it.
EmptyResultsDirectory == [master |-> << >>, files |-> {}]

\* No report is asked for and no correlation is recorded or queried.
NoLibraryCalls ==
  /\ reportArg = << >>
  /\ correlations = << >>
  /\ indexFiles = << >>

\* The state of a run before runTests has done anything.
NotStarted ==
  /\ pc = "start"
  /\ prompts = << >>
  /\ data = << >>
  /\ testCases = << >>
  /\ concurrencyLimit = [nan |-> FALSE, val |-> 0]
  /\ testCasesByModel = << >>
  /\ m = 1
  /\ i = 1
  /\ awaited = {}
  /\ inProgress = {}
  /\ modelResults = << >>
  /\ allResults = << >>
  /\ results = << >>
  /\ summary = << >>
  /\ st = << >>
  /\ started = << >>
  /\ sent = << >>
  /\ response = << >>
  /\ cacheLog = << >>
  /\ now = 0
  /\ timestamp = << >>
  /\ parsed = << >>
  /\ sink = << >>
  /\ evaluation = << >>
  /\ report = << >>
  /\ recording = << >>
  /\ resultsDir = EmptyResultsDirectory
  /\ query = << >>

\* A run with the response cache switched off, its default, and an empty
\* cache directory.
Init ==
  /\ \E inp \in Inputs :
       /\ env = inp.env
       /\ configured = inp.configured
       /\ available = inp.available
       /\ promptDir = inp.promptDir
       /\ dataDir = inp.dataDir
  /\ cachingEnv = Unset
  /\ cacheDir = EmptyDirectory
  /\ parseArg = JNull
  /\ NoLibraryCalls
  /\ NotStarted

(***************************************************************************)
(* runTests, lines 685-716: the preconditions of a run.                    *)
(***************************************************************************)
NoModelsAvailable ==
  /\ pc = "start"
  /\ Len(ModelsToTest(configured, available)) = 0
  /\ pc' = "aborted"
  /\ UNCHANGED <<inputVars, libVars, sink, loadedVars, parsed, cacheVars, m, i, awaited, inProgress,
                 modelResults, allResults, results, summary, st, started, sent>>

NoPromptsFound ==
  /\ pc = "start"
  /\ Len(ModelsToTest(configured, available)) # 0
  /\ Len(LoadPrompts(promptDir)) = 0
  /\ pc' = "aborted"
  /\ UNCHANGED <<inputVars, libVars, sink, loadedVars, parsed, cacheVars, m, i, awaited, inProgress,
                 modelResults, allResults, results, summary, st, started, sent>>

NoDataFound ==
  /\ pc = "start"
  /\ Len(ModelsToTest(configured, available)) # 0
  /\ Len(LoadPrompts(promptDir)) # 0
  /\ Len(LoadData(dataDir)) = 0
  /\ pc' = "aborted"
  /\ UNCHANGED <<inputVars, libVars, sink, loadedVars, parsed, cacheVars, m, i, awaited, inProgress,
                 modelResults, allResults, results, summary, st, started, sent>>

(***************************************************************************)
(* runTests, lines 843-879: generation and grouping of the test cases.     *)
(***************************************************************************)
Generate ==
  /\ pc = "start"
  /\ Len(ModelsToTest(configured, available)) # 0
  /\ Len(LoadPrompts(promptDir)) # 0
  /\ Len(LoadData(dataDir)) # 0
  /\ prompts' = LoadPrompts(promptDir)
  /\ data' = LoadData(dataDir)
  /\ testCases' = GenerateTestCases(ModelsToTest(configured, available),
                                    prompts', data')
  /\ concurrencyLimit' = ConcurrencyLimitOf(env)
  /\ testCasesByModel' = GroupByModel(testCases', 1, << >>)
  /\ st' = [k \in 1..Len(testCases') |-> "pending"]
  /\ started' = [k \in 1..Len(testCases') |-> 0]
  /\ sent' = [k \in 1..Len(testCases') |-> << >>]
  /\ pc' = IF Len(testCasesByModel') = 0 THEN "finish" ELSE "schedule"
  /\ response' = [k \in 1..Len(testCases') |-> Null]
  /\ cacheLog' = [k \in 1..Len(testCases') |-> {}]
  /\ timestamp' = [k \in 1..Len(testCases') |-> 0]
  /\ sink' = [k \in 1..Len(testCases') |-> "none"]
  /\ UNCHANGED <<inputVars, libVars, parsed, m, i, awaited, inProgress, modelResults,
                 allResults, results, summary, cacheDir, now>>

(***************************************************************************)
(* processModelTestCases, lines 882-913.                                   *)
(***************************************************************************)
Cases == testCasesByModel[m].cases

\* A faulty variant of MustWait: the limit is exceeded by one before the loop waits.
MustWaitOffByOne(size, limit) == NumGE(size, [limit EXCEPT !.val = @ + 1])

\* Line 890: while (inProgress.size >= limit)
MustWait(size, limit) == NumGE(size, limit)

\* A faulty variant of RaceSettled: the loop waits for the whole window (Promise.all).
RaceSettledWhenAll(waitingFor, pending) ==
  waitingFor # {} /\ \A p \in waitingFor : p \notin pending

\* Line 891: Promise.race(inProgress) settles with the first of its promises;
\* a promise of the set is settled once its callback has removed it.
RaceSettled(waitingFor, pending) == \E p \in waitingFor : p \notin pending

\* A faulty variant of AllSettled: the partition ends without waiting for its cases.
AllSettledNoWait(waitingFor, pending) == TRUE

\* Line 911: Promise.all(inProgress) settles when all of its promises have.
AllSettled(waitingFor, pending) == \A p \in waitingFor : p \notin pending

\* Line 904: if (result) results.push(result); a returned value is << >>
\* for null and << result >> otherwise.
PushResult(rs, returned) ==
  IF Truthy(returned) THEN Append(rs, returned[1]) ELSE rs

\* A faulty variant of AfterCaseFailure: the error escapes processTestCase and ends
\* the run in the catch block of runTests.
AfterCaseFailureEscapes(position) == "aborted"

\* Lines 818-839: the catch block of processTestCase returns null; the
\* position of runTests is not affected.
AfterCaseFailure(position) == position

\* The messages executePrompt hands to the adapter for a test case.
MessagesOf(tc, allPrompts) ==
  ExecutePromptMessages(tc.promptContent, tc.documentContent,
                        tc.input_user_prompt, allPrompts)

\* executePrompt line 136.
CacheKeyOf(tc) ==
  GenerateCacheKey(tc.model, tc.promptContent, tc.documentContent)

\* processTestCase is called: with the cache enabled executePrompt first
\* awaits getFromCache, without it the adapter is invoked at once.
Admit ==
  /\ pc = "schedule"
  /\ i <= Len(Cases)
  /\ ~MustWait(Cardinality(inProgress), concurrencyLimit)
  /\ LET k == Cases[i]
         tc == testCases[k]
     IN  /\ started' = [started EXCEPT ![k] = @ + 1]
         /\ IF CachingEnabled(cachingEnv)
            THEN /\ st' = [st EXCEPT ![k] = "lookup"]
                 /\ sent' = sent
            ELSE /\ st' = [st EXCEPT ![k] = "exec"]
                 /\ sent' = [sent EXCEPT ![k] = MessagesOf(tc, prompts)]
         /\ inProgress' = inProgress \cup {k}
  /\ i' = i + 1
  /\ UNCHANGED <<inputVars, libVars, sink, loadedVars, parsed, cacheVars, pc, m, awaited, modelResults,
                 allResults, results, summary>>

WaitForSlot ==
  /\ pc = "schedule"
  /\ i <= Len(Cases)
  /\ MustWait(Cardinality(inProgress), concurrencyLimit)
  /\ pc' = "waiting"
  /\ awaited' = inProgress
  /\ UNCHANGED <<inputVars, libVars, sink, loadedVars, parsed, cacheVars, m, i, inProgress, modelResults,
                 allResults, results, summary, st, started, sent>>

SlotFreed ==
  /\ pc = "waiting"
  /\ RaceSettled(awaited, inProgress)
  /\ pc' = "schedule"
  /\ awaited' = {}
  /\ UNCHANGED <<inputVars, libVars, sink, loadedVars, parsed, cacheVars, m, i, inProgress, modelResults,
                 allResults, results, summary, st, started, sent>>

AwaitRemaining ==
  /\ pc = "schedule"
  /\ i > Len(Cases)
  /\ pc' = "draining"
  /\ awaited' = inProgress
  /\ UNCHANGED <<inputVars, libVars, sink, loadedVars, parsed, cacheVars, m, i, inProgress, modelResults,
                 allResults, results, summary, st, started, sent>>

\* Lines 935-941: the partition's results join allResults, and the loop of
\* runTests goes to the next model.
PartitionDone ==
  /\ pc = "draining"
  /\ AllSettled(awaited, inProgress)
  /\ allResults' = allResults \o modelResults
  /\ modelResults' = << >>
  /\ awaited' = {}
  /\ inProgress' = {}
  /\ IF m < Len(testCasesByModel)
     THEN m' = m + 1 /\ i' = 1 /\ pc' = "schedule"
     ELSE m' = m /\ i' = i /\ pc' = "finish"
  /\ UNCHANGED <<inputVars, libVars, sink, loadedVars, parsed, cacheVars, results, summary, st, started, sent>>

(***************************************************************************)
(* processTestCase, lines 731-840, one call per admitted test case.        *)
(***************************************************************************)
\* The positions of a test case at which executePrompt has returned a
\* response: after the adapter's answer when the cache is off, after a cache
\* hit or after the answer was saved when it is on.
ResponseInHand ==
  IF CachingEnabled(cachingEnv) THEN {"hit", "cached"} ELSE {"exec"}

\* executePrompt throws (timeout, transport, status) or parsing throws.
InvocationFails(k) ==
  /\ pc \in {"schedule", "waiting", "draining"}
  /\ st[k] = "exec"
  /\ st' = [st EXCEPT ![k] = "failed"]
  /\ inProgress' = inProgress \ {k}
  /\ modelResults' = PushResult(modelResults, Null)
  /\ pc' = AfterCaseFailure(pc)
  /\ UNCHANGED <<inputVars, libVars, sink, loadedVars, parsed, cacheVars, m, i, awaited, allResults, results,
                 summary, started, sent>>

\* evaluateResponse returns null (lines 755-758): processTestCase returns
\* null as it does from its catch block.
EvaluationFails(k) ==
  /\ pc \in {"schedule", "waiting", "draining"}
  /\ st[k] \in ResponseInHand
  /\ st' = [st EXCEPT ![k] = "failed"]
  /\ inProgress' = inProgress \ {k}
  /\ modelResults' = PushResult(modelResults, Null)
  /\ response' = [response EXCEPT ![k] = Null]
  /\ UNCHANGED <<inputVars, libVars, sink, loadedVars, parsed, pc, m, i, awaited, allResults,
                 results, summary, started, sent, cacheDir, cacheLog, now,
                 timestamp>>

\* A faulty variant of SaveIssued: the result is returned without the write.
SaveSkipped(state) == state

\* Line 815: saveIndividualResult(result) is called and awaited.
SaveIssued(state) == "issued"

\* The response is parsed and evaluated, the result gets its timestamp
\* (line 801) and saveIndividualResult is awaited.
ResponseEvaluated(k) ==
  /\ pc \in {"schedule", "waiting", "draining"}
  /\ st[k] \in ResponseInHand
  /\ st' = [st EXCEPT ![k] = "saving"]
  /\ response' = [response EXCEPT ![k] = Null]
  /\ timestamp' = [timestamp EXCEPT ![k] = now]
  /\ sink' = [sink EXCEPT ![k] = SaveIssued(@)]
  /\ UNCHANGED <<inputVars, libVars, loadedVars, parsed, pc, m, i, awaited, inProgress,
                 modelResults, allResults, results, summary, started, sent,
                 cacheDir, cacheLog, now>>

\* saveIndividualResult, lines 589-592: creating the directory or writing one
\* of the files fails; the error is logged and swallowed.
IndividualWriteFails(k) ==
  /\ pc \in {"schedule", "waiting", "draining"}
  /\ st[k] = "saving"
  /\ sink[k] = "issued"
  /\ sink' = [sink EXCEPT ![k] = "failed"]
  /\ UNCHANGED <<inputVars, libVars, loadedVars, parsed, cacheVars, pc, m, i,
                 awaited, inProgress, modelResults, allResults, results,
                 summary, st, started, sent>>

\* saveIndividualResult returns, the result is returned and the callback of
\* lines 902-905 runs.
ResultSaved(k) ==
  /\ pc \in {"schedule", "waiting", "draining"}
  /\ st[k] = "saving"
  /\ st' = [st EXCEPT ![k] = "ok"]
  /\ inProgress' = inProgress \ {k}
  /\ modelResults' = PushResult(modelResults, << ResultOf(testCases[k], prompts) >>)
  /\ sink' = [sink EXCEPT ![k] = IF @ = "issued" THEN "written" ELSE @]
  /\ UNCHANGED <<inputVars, libVars, loadedVars, parsed, cacheVars, pc, m, i, awaited, allResults, results,
                 summary, started, sent>>

(***************************************************************************)
(* runTests, lines 944-1024: the summary.                                  *)
(***************************************************************************)
\* A faulty variant of HasResults: the summary is printed whatever the results.
HasResultsAlways(rs) == TRUE

\* Line 946: if (results.length > 0)
HasResults(rs) == Len(rs) > 0

\* Lines 953-955.
SummaryOf(cases, rs) ==
  [totalTests |-> Len(cases),
   successfulTests |-> Len(rs),
   failedTests |-> Len(cases) - Len(rs)]

Summarize ==
  /\ pc = "finish"
  /\ results' = results \o allResults
  /\ HasResults(results')
  /\ summary' = << SummaryOf(testCases, results') >>
  /\ pc' = "done"
  /\ UNCHANGED <<inputVars, libVars, sink, loadedVars, parsed, cacheVars, m, i, awaited, inProgress,
                 modelResults, allResults, st, started, sent>>

NoResultsGenerated ==
  /\ pc = "finish"
  /\ results' = results \o allResults
  /\ ~HasResults(results')
  /\ summary' = << >>
  /\ pc' = "done"
  /\ UNCHANGED <<inputVars, libVars, sink, loadedVars, parsed, cacheVars, m, i, awaited, inProgress,
                 modelResults, allResults, st, started, sent>>

Next ==
  \/ NoModelsAvailable
  \/ NoPromptsFound
  \/ NoDataFound
  \/ Generate
  \/ Admit
  \/ WaitForSlot
  \/ SlotFreed
  \/ AwaitRemaining
  \/ PartitionDone
  \/ \E k \in DOMAIN st : InvocationFails(k)
  \/ \E k \in DOMAIN st : EvaluationFails(k)
  \/ \E k \in DOMAIN st : ResponseEvaluated(k)
  \/ \E k \in DOMAIN st : ResultSaved(k)
  \/ Summarize
  \/ NoResultsGenerated

Spec == Init /\ [][Next]_vars

\* The event loop runs every continuation that is ready, and every admitted
\* test case completes or fails.
LiveSpec == Spec /\ WF_vars(Next)

(***************************************************************************)
(* The files a test case writes.                                           *)
(***************************************************************************)
\* saveToCache line 36: the cache file is named by the key.
CacheFileOf(tc) == <<"cache", CacheKeyOf(tc)>>

\* saveIndividualResult lines 540-542: the directory of a result is named by
\* the result's model, prompt_name, input_data_file and timestamp.
ResultDirOf(result, time) ==
  <<"incremental", result.model, result.prompt_name, result.input_data_file, time>>

(***************************************************************************)
(* executePrompt with the response cache enabled, lines 134-143 and        *)
(* 264-284.                                                                *)
(***************************************************************************)
\* getFromCache returns: a truthy value is returned as the response, and
\* otherwise the adapter is invoked.  A file that is there may fail to be
\* read.
CacheLookup(k) ==
  /\ pc \in {"schedule", "waiting", "draining"}
  /\ st[k] = "lookup"
  /\ \E readOk \in BOOLEAN :
       LET tc == testCases[k]
           cacheKey == CacheKeyOf(tc)
           cachedResponse == GetFromCache(cacheDir, cacheKey, readOk)
       IN  /\ ~readOk => cacheKey \in DOMAIN cacheDir
           /\ IF CachedResponseTruthy(cachedResponse)
              THEN /\ st' = [st EXCEPT ![k] = "hit"]
                   /\ response' = [response EXCEPT ![k] = cachedResponse]
                   /\ sent' = sent
              ELSE /\ st' = [st EXCEPT ![k] = "exec"]
                   /\ response' = response
                   /\ sent' = [sent EXCEPT ![k] = MessagesOf(tc, prompts)]
           /\ cacheLog' = [cacheLog EXCEPT ![k] =
                             IF readOk THEN @ ELSE @ \cup {"readError"}]
  /\ UNCHANGED <<inputVars, libVars, sink, loadedVars, parsed, pc, m, i, awaited, inProgress,
                 modelResults, allResults, results, summary, started,
                 cacheDir, now, timestamp>>

\* The adapter answers and saveToCache is awaited: the file is written or
\* the write fails.
AdapterReturns(k) ==
  /\ pc \in {"schedule", "waiting", "draining"}
  /\ CachingEnabled(cachingEnv)
  /\ st[k] = "exec"
  /\ \E body \in ServerBodies, elapsed \in ElapsedTimes, writeOk \in BOOLEAN :
       LET answer == [value |-> AdapterData(body, elapsed), madeFor |-> sent[k]]
       IN  /\ cacheDir' = SaveToCache(cacheDir, CacheKeyOf(testCases[k]), answer, writeOk)
           /\ response' = [response EXCEPT ![k] = << answer >>]
           /\ cacheLog' = [cacheLog EXCEPT ![k] =
                             @ \cup {IF writeOk THEN "wrote" ELSE "writeError"}]
  /\ st' = [st EXCEPT ![k] = "cached"]
  /\ UNCHANGED <<inputVars, libVars, sink, loadedVars, parsed, pc, m, i, awaited, inProgress,
                 modelResults, allResults, results, summary, started, sent,
                 now, timestamp>>

\* The clock advances by one millisecond.
Tick ==
  /\ pc \in {"schedule", "waiting", "draining"}
  /\ now < MaxClock
  /\ now' = now + 1
  /\ UNCHANGED <<inputVars, libVars, sink, loadedVars, parsed, pc, m, i, awaited, inProgress,
                 modelResults, allResults, results, summary, st, started,
                 sent, cacheDir, response, cacheLog, timestamp>>

CacheNext ==
  \/ Next
  \/ \E k \in DOMAIN st : CacheLookup(k)
  \/ \E k \in DOMAIN st : IndividualWriteFails(k)
  \/ \E k \in DOMAIN st : AdapterReturns(k)
  \/ Tick

(***************************************************************************)
(* The explored runs with a cache directory: the cache on or off, one      *)
(* model, a user prompt alone, with its system prompt or with the legacy   *)
(* prompt of the same base name, and documents of which two may have the   *)
(* same text.  The directory holds files for some of the keys of the run:  *)
(* written by an earlier run over the same prompts, written by an earlier  *)
(* run whose system and assistant prompts had another text, or cut short.  *)
(***************************************************************************)
CachingEnvValues ==
  {Unset, EnvOf(<<"t", "r", "u", "e">>), EnvOf(<<"f", "a", "l", "s", "e">>)}

CachePromptDirs ==
  {[k \in DOMAIN names |-> [file |-> names[k], content |-> FileText(names[k])]] :
     names \in {<< >>, <<UserA>>, <<UserA, SystemA>>, <<LegacyA, UserA>>}}

CacheDataDirs ==
  {<< >>, << [file |-> "d1", content |-> DataText("d1")] >>}
  \cup {<< [file |-> "d1", content |-> DataText("d1")],
           [file |-> "d2", content |-> c] >> : c \in {DataText("d1"), DataText("d2")}}

EarlierText(name) == FileText(name \o <<"earlier">>)

EarlierPrompts(allPrompts) ==
  [n \in 1..Len(allPrompts) |->
     IF allPrompts[n].type \in {"system", "assistant"}
     THEN [allPrompts[n] EXCEPT !.content = EarlierText(allPrompts[n].key)]
     ELSE allPrompts[n]]

CutShortFile ==
  [text |-> <<"{", "\n", " ", " ", "\"">>, saved |-> Null, madeFor |-> << >>]

\* The files an earlier run may have left for the key of a test case.
EarlierFiles(tc, allPrompts) ==
  {SaveToCache(EmptyDirectory, CacheKeyOf(tc),
               [value |-> AdapterData(ChatBody, <<"0">>),
                madeFor |-> MessagesOf(tc, corpus)], TRUE)[CacheKeyOf(tc)] :
     corpus \in {allPrompts, EarlierPrompts(allPrompts)}}
  \cup {CutShortFile}

InitialCaches(cases, allPrompts) ==
  LET keys == {CacheKeyOf(cases[k]) : k \in DOMAIN cases}
      files == UNION {EarlierFiles(cases[k], allPrompts) : k \in DOMAIN cases}
  IN  UNION {{dir \in [held -> files] :
                \A k \in DOMAIN cases :
                  CacheKeyOf(cases[k]) \in held =>
                    dir[CacheKeyOf(cases[k])] \in EarlierFiles(cases[k], allPrompts)} :
             held \in SUBSET keys}

CacheInputs ==
  {inp \in [env : {EnvOf(<<"1">>), EnvOf(<<"2">>)},
            configured : {<<"m1">>},
            available : {{}, {"m1"}},
            promptDir : CachePromptDirs,
            dataDir : CacheDataDirs,
            cachingEnv : CachingEnvValues] :
     Len(CasesOfInput(inp)) <= MaxCacheCases}

CacheInit ==
  /\ \E inp \in CacheInputs :
       /\ env = inp.env
       /\ configured = inp.configured
       /\ available = inp.available
       /\ promptDir = inp.promptDir
       /\ dataDir = inp.dataDir
       /\ cachingEnv = inp.cachingEnv
       /\ cacheDir \in InitialCaches(CasesOfInput(inp), LoadPrompts(inp.promptDir))
  /\ parseArg = JNull
  /\ NoLibraryCalls
  /\ NotStarted

CacheSpec == CacheInit /\ [][CacheNext]_vars

(***************************************************************************)
(* parseJsonFromResponse applied to a response.  The explored responses    *)
(* are chat completions whose content is made of up to MaxFragments        *)
(* fragments (JSON texts, prose, code fence markers, a text in need of     *)
(* repair, lone brackets, a comment), text completions of one fragment,    *)
(* and responses without content.                                          *)
(***************************************************************************)
Fragments ==
  {<<"{", "\"", "a", "\"", ":", "1", "}">>,
   <<"[", "1", "]">>,
   <<"n", "u", "l", "l">>,
   <<"1">>,
   <<"\"", "a", "\"">>,
   <<"x", " ">>,
   FenceJson,
   FenceClose,
   <<"{", "'", "a", "'", ":", " ", "1", ",", "}">>,
   <<"{">>,
   <<"}">>,
   <<"]">>,
   <<"/", "/", "c">>}

ParseTexts == {ConcatAll(fs) : fs \in SeqsUpTo(Fragments, MaxFragments)}

ChatResponse(content) ==
  JObj(<< << <<"choices">>,
             JArr(<< JObj(<< << <<"message">>,
                                JObj(<< << <<"content">>, content >> >>) >> >>) >>) >> >>)

CompletionResponse(text) ==
  JObj(<< << <<"choices">>, JArr(<< JObj(<< << <<"text">>, text >> >>) >>) >> >>)

ParseResponses ==
  {ChatResponse(JStr(t)) : t \in ParseTexts}
  \cup {CompletionResponse(JStr(f)) : f \in Fragments}
  \cup {ChatResponse(JNull), CompletionResponse(JNull), JObj(<< >>),
        JObj(<< << <<"choices">>, JArr(<< >>) >> >>)}

ParseInit ==
  /\ parseArg \in ParseResponses
  /\ env = Unset
  /\ configured = << >>
  /\ available = {}
  /\ promptDir = << >>
  /\ dataDir = << >>
  /\ cachingEnv = Unset
  /\ cacheDir = EmptyDirectory
  /\ NoLibraryCalls
  /\ NotStarted

\* processTestCase line 750: parseJsonFromResponse(response) returns.
ParseResponse ==
  /\ parsed = << >>
  /\ parsed' = << ParseJsonFromResponse(parseArg) >>
  /\ UNCHANGED <<inputVars, libVars, sink, loadedVars, cacheVars, pc, m, i, awaited,
                 inProgress, modelResults, allResults, results, summary, st,
                 started, sent>>

ParseNext == ParseResponse

ParseSpec == ParseInit /\ [][ParseNext]_vars

(***************************************************************************)
(* Texts with expected fields and relevant terms.                          *)
(***************************************************************************)
ObjectText ==
  <<"{", "\"", "s", "u", "m", "m", "a", "r", "y", "\"", ":", "\"", "x",
    "\"", ",", "\"", "a", "n", "a", "l", "y", "s", "i", "s", "\"", ":",
    "\"", "K", "e", "y", "\"", "}">>

QuotedNullText ==
  <<"\"", "n", "u", "l", "l", "\"">>

ProseText ==
  <<"f", "i", "l", "e", " ", "t", "e", "x", "t">>

(***************************************************************************)
(* The responses explored to check the evaluation: those of the parsing    *)
(* and texts that hold expected fields and relevant terms.                 *)
(***************************************************************************)
EvalTexts == {ObjectText, QuotedNullText, ProseText}

EvalResponses ==
  ParseResponses
  \cup {ChatResponse(JStr(t)) : t \in EvalTexts}
  \cup {CompletionResponse(JStr(t)) : t \in EvalTexts}

EvalInit ==
  /\ parseArg \in EvalResponses
  /\ env = Unset
  /\ configured = << >>
  /\ available = {}
  /\ promptDir = << >>
  /\ dataDir = << >>
  /\ cachingEnv = Unset
  /\ cacheDir = EmptyDirectory
  /\ NoLibraryCalls
  /\ NotStarted

\* processTestCase line 753: evaluateResponse(parsedResponse) returns.
EvaluateParsed ==
  /\ parsed # << >>
  /\ evaluation = << >>
  /\ evaluation' = << [evaluated |-> Evaluate(parsed[1]),
                       returned |-> EvaluateResponse(parsed[1])] >>
  /\ UNCHANGED <<inputVars, loadedVars, cacheVars, runVars, parsed, report,
                 recording, resultsDir, query>>

EvalNext ==
  \/ ParseResponse
  \/ EvaluateParsed

EvalSpec == EvalInit /\ [][EvalNext]_vars

(***************************************************************************)
(* The report of a run: generateReport on the results of any corpus, any   *)
(* of its cases failed, each other response one of a few parsed values.    *)
(***************************************************************************)
MaxReportFiles == 2

ReportPromptFiles == {UserA, UserB, LegacyA, LegacyB, SystemA}

ReportPromptDirs ==
  {[k \in DOMAIN names |-> [file |-> names[k], content |-> FileText(names[k])]] :
     names \in {f \in SeqsUpTo(ReportPromptFiles, MaxReportFiles) : Injective(f)}}

ReportInputs ==
  {inp \in [env : {Unset},
            configured : {c \in SeqsUpTo(Models, MaxConfigured) : Injective(c)},
            available : {Models},
            promptDir : ReportPromptDirs,
            dataDir : SchedulingDataDirs] :
     Len(CasesOfInput(inp)) <= MaxCases}

FileTextContentKey ==
  <<"f", "i", "l", "e", " ", "t", "e", "x", "t", " ", "c", "o", "n", "t",
    "e", "n", "t", " ", "k", "e", "y">>

\* Parsed responses: null, an object with one expected field and four
\* relevant terms, and a text with three relevant terms, which is scored
\* with the fourth of its raw_text key.
ReportValues ==
  {JNull,
   JObj(<< << <<"s", "u", "m", "m", "a", "r", "y">>, JStr(FileTextContentKey) >> >>),
   JStr(<<"f", "i", "l", "e", " ", "c", "o", "n", "t", "e", "n", "t", " ",
          "k", "e", "y">>)}

ReportEvaluations == {EvaluateResponse(v) : v \in ReportValues}

\* The results of the cases that did not fail, in the order of the cases.
ResultsOf(inp, outcome) ==
  LET cases == CasesOfInput(inp)
      kept == SelectSeq([k \in 1..Len(cases) |-> k],
                        LAMBDA k : outcome[k] # << >>)
  IN  [j \in 1..Len(kept) |->
        ScoredResult(cases[kept[j]], LoadPrompts(inp.promptDir),
                     outcome[kept[j]][1])]

HalfwayIn(quantitative, digits) ==
  LET count == Len(quantitative)
      sums == Sums(quantitative, count)
  IN  \/ ExactlyHalfway(sums.overall, count * MetricUnit, digits)
      \/ ExactlyHalfway(sums.accuracy, count * MetricUnit, digits)
      \/ ExactlyHalfway(sums.completeness, count * MetricUnit, digits)
      \/ ExactlyHalfway(sums.relevance, count * MetricUnit, digits)

\* No number of the report is halfway between two printed values.
NothingHalfway(reportResults) ==
  /\ \A k \in 1..Len(reportResults) :
       ~HalfwayIn(<< reportResults[k].quantitative >>, LiteralDigits)
  /\ \A g \in 1..Len(ModelGroups(reportResults)) :
       ~HalfwayIn(ModelGroups(reportResults)[g].quantitative, FRACTION_DIGITS)
  /\ \A g \in 1..Len(PromptGroups(reportResults)) :
       ~HalfwayIn(PromptGroups(reportResults)[g].quantitative, LiteralDigits)

ReportOutcomes == {<< >>} \cup {<< e >> : e \in ReportEvaluations}

\* saveResults is called with results when there is one (line 946).
ReportInit ==
  /\ \E inp \in ReportInputs :
       /\ env = inp.env
       /\ configured = inp.configured
       /\ available = inp.available
       /\ promptDir = inp.promptDir
       /\ dataDir = inp.dataDir
       /\ \E outcome \in [1..Len(CasesOfInput(inp)) -> ReportOutcomes] :
            reportArg = ResultsOf(inp, outcome)
  /\ reportArg # << >>
  /\ NothingHalfway(reportArg)
  /\ cachingEnv = Unset
  /\ cacheDir = EmptyDirectory
  /\ parseArg = JNull
  /\ correlations = << >>
  /\ indexFiles = << >>
  /\ NotStarted

\* saveResults line 614: generateReport(results) returns.
GenerateReport ==
  /\ report = << >>
  /\ report' = << GenerateReportText(reportArg) >>
  /\ UNCHANGED <<inputVars, loadedVars, cacheVars, runVars, parsed, evaluation,
                 recording, resultsDir, query>>

ReportNext == GenerateReport

ReportSpec == ReportInit /\ [][ReportNext]_vars

(***************************************************************************)
(* The correlator: recordCorrelation calls issued one after the other and  *)
(* running interleaved, each suspended at its file operations, and the     *)
(* queries.  RESULTS_DIR exists and its files can be read and written.     *)
(***************************************************************************)
MaxCalls == 2

OrgModel == <<"org", "/", "m2">>

RunPath == <<"run_", "1">>

CorrelationArgs ==
  [modelId : {<<"m1">>, OrgModel},
   input_data_file : {"d1"},
   input_user_prompt : {UserA},
   resultPath : {Null, RunPath}]

\* An entry of an index file that was in a run directory before.
EarlierEntry ==
  EntryOf([modelId |-> <<"m1">>, input_data_file |-> "d2",
           input_user_prompt |-> UserB, resultPath |-> RunPath],
          <<"earlier">>)

IndexFile(dir) ==
  [dir |-> dir, name |-> <<"correlation_index_", "1", ".json">>,
   content |-> << EarlierEntry >>]

IndexDirectories == {<< >>, << IndexFile(RunPath) >>, << IndexFile(<<"old">>) >>}

CorrInit ==
  /\ correlations \in SeqsUpTo(CorrelationArgs, MaxCalls)
  /\ indexFiles \in IndexDirectories
  /\ env = Unset
  /\ configured = << >>
  /\ available = {}
  /\ promptDir = << >>
  /\ dataDir = << >>
  /\ cachingEnv = Unset
  /\ cacheDir = EmptyDirectory
  /\ parseArg = JNull
  /\ reportArg = << >>
  /\ NotStarted

\* Lines 35-59 and 93-95: the next call begins, and has returned when it
\* has no result path.
RecordCorrelation ==
  /\ Len(recording) < Len(correlations)
  /\ LET correlation == correlations[Len(recording) + 1]
         correlationId ==
           CreateCorrelationId(correlation.modelId, correlation.input_data_file,
                               correlation.input_user_prompt, now)
     IN  recording' =
           Append(recording,
                  [pc |-> IF Truthy(correlation.resultPath)
                          THEN "writing" ELSE "returned",
                   entry |-> EntryOf(correlation, correlationId),
                   masterCorrelations |-> << >>])
  /\ UNCHANGED <<inputVars, loadedVars, cacheVars, runVars, parsed, evaluation,
                 report, resultsDir, query>>

\* Lines 63-74: the directories are made and the correlation file is written.
CorrelationFileWritten(k) ==
  /\ recording[k].pc = "writing"
  /\ resultsDir' =
       [resultsDir EXCEPT !.files =
          WriteFile(@, recording[k].entry.resultPath,
                    CorrelationDirName(recording[k].entry.modelId),
                    CorrelationFileName(recording[k].entry.id),
                    recording[k].entry)]
  /\ recording' = [recording EXCEPT ![k].pc = "reading"]
  /\ UNCHANGED <<inputVars, loadedVars, cacheVars, runVars, parsed, evaluation,
                 report, query>>

\* Lines 81-87: the master file is read.
MasterRead(k) ==
  /\ recording[k].pc = "reading"
  /\ recording' = [recording EXCEPT ![k].pc = "appending",
                                    ![k].masterCorrelations = ReadMaster(resultsDir)]
  /\ UNCHANGED <<inputVars, loadedVars, cacheVars, runVars, parsed, evaluation,
                 report, resultsDir, query>>

\* Lines 90-97: the master file is written and the call returns its id.
MasterWritten(k) ==
  /\ recording[k].pc = "appending"
  /\ resultsDir' = WriteMaster(resultsDir, recording[k].masterCorrelations,
                               recording[k].entry)
  /\ recording' = [recording EXCEPT ![k].pc = "returned"]
  /\ UNCHANGED <<inputVars, loadedVars, cacheVars, runVars, parsed, evaluation,
                 report, query>>

\* getAllCorrelations() returns.
AllCorrelationsAsked ==
  /\ query' = << [asked |-> "getAllCorrelations", id |-> Null,
                  returned |-> GetAllCorrelations(indexFiles, resultsDir)] >>
  /\ query' # query
  /\ UNCHANGED <<inputVars, loadedVars, cacheVars, runVars, parsed, evaluation,
                 report, recording, resultsDir>>

\* getCorrelationById(id) returns, for the id a call has returned.
CorrelationAsked(k) ==
  /\ recording[k].pc = "returned"
  /\ query' = << [asked |-> "getCorrelationById", id |-> recording[k].entry.id,
                  returned |-> GetCorrelationById(indexFiles, resultsDir,
                                                  recording[k].entry.id)] >>
  /\ query' # query
  /\ UNCHANGED <<inputVars, loadedVars, cacheVars, runVars, parsed, evaluation,
                 report, recording, resultsDir>>

\* The clock advances by one millisecond between two steps.
CorrelatorTick ==
  /\ now < MaxClock
  /\ now' = now + 1
  /\ UNCHANGED <<inputVars, loadedVars, runVars, parsed, libVars, cacheDir,
                 response, cacheLog, timestamp>>

CorrNext ==
  \/ RecordCorrelation
  \/ \E k \in DOMAIN recording : CorrelationFileWritten(k)
  \/ \E k \in DOMAIN recording : MasterRead(k)
  \/ \E k \in DOMAIN recording : MasterWritten(k)
  \/ AllCorrelationsAsked
  \/ \E k \in DOMAIN recording : CorrelationAsked(k)
  \/ CorrelatorTick

CorrSpec == CorrInit /\ [][CorrNext]_vars



(***************************************************************************)
(* Vocabulary of the properties.                                           *)
(***************************************************************************)
\* processTestCase has been called and has not returned.
InFlight ==
  {k \in DOMAIN st : st[k] \in {"lookup", "hit", "exec", "cached", "saving"}}

Succeeded == {k \in DOMAIN st : st[k] = "ok"}

Failed == {k \in DOMAIN st : st[k] = "failed"}

Settled == Succeeded \cup Failed

PositiveLimit == ~concurrencyLimit.nan /\ concurrencyLimit.val >= 1

Terminated == pc \in {"done", "aborted"}

PartitionOf(k) ==
  CHOOSE p \in 1..Len(testCasesByModel) :
    \E n \in 1..Len(testCasesByModel[p].cases) : testCasesByModel[p].cases[n] = k

TripleOf(k) ==
  <<testCases[k].model, testCases[k].input_user_prompt, testCases[k].input_data_file>>

\* The result set holds the results of the successful test cases and nothing else.
ResultsAreTheSuccesses ==
  /\ Len(results) = Cardinality(Succeeded)
  /\ \A k \in Succeeded :
       \E r \in 1..Len(results) : results[r] = ResultOf(testCases[k], prompts)
  /\ \A r \in 1..Len(results) :
       \E k \in Succeeded : results[r] = ResultOf(testCases[k], prompts)

(***************************************************************************)
(* C1: with a limit >= 1, at every instant at most limit test cases have   *)
(* been admitted and have not yet completed or failed.                     *)
(***************************************************************************)
C1_AdmissionBound ==
  PositiveLimit => Cardinality(InFlight) <= concurrencyLimit.val

\* The window is full and cases are still unscheduled.
C1_Witness ==
  /\ pc = "waiting"
  /\ PositiveLimit
  /\ concurrencyLimit.val = 2
  /\ Cardinality(InFlight) = 2
  /\ i <= Len(Cases)

(***************************************************************************)
(* C2: at the end of scheduling every generated test case has been         *)
(* admitted exactly once and no (model, prompt id, document id)            *)
(* combination has been executed twice.                                    *)
(***************************************************************************)
C2_ExactlyOnce ==
  pc \in {"finish", "done"} =>
    /\ \A k \in DOMAIN started : started[k] = 1
    /\ \A k, l \in DOMAIN started : k # l => TripleOf(k) # TripleOf(l)

(***************************************************************************)
(* C3: models are processed one after another: the cases of earlier        *)
(* partitions have all completed or failed, the cases of later partitions  *)
(* are all unscheduled, and the in-flight set is empty when a partition    *)
(* starts and when the last one has ended.                                 *)
(***************************************************************************)
C3_SequentialModels ==
  /\ \A k \in DOMAIN st :
       /\ PartitionOf(k) < m => k \in Settled
       /\ PartitionOf(k) > m => st[k] = "pending"
       /\ k \in inProgress => PartitionOf(k) = m
  /\ (pc = "schedule" /\ i = 1) => inProgress = {} /\ InFlight = {}
  /\ pc \in {"finish", "done"} => inProgress = {} /\ Settled = DOMAIN st

\* A case of the second partition is in flight.
C3_Witness ==
  /\ m = 2
  /\ \E k \in InFlight : PartitionOf(k) = 2

(***************************************************************************)
(* C4: once a test case has failed, the run still goes on to its end with  *)
(* every test case admitted, and the final result set holds every          *)
(* successful case and leaves out the failed ones only.                    *)
(***************************************************************************)
C4_FailureIsolated ==
  (Failed # {}) ~>
    (/\ pc = "done"
     /\ \A k \in DOMAIN started : started[k] = 1
     /\ ResultsAreTheSuccesses)

\* A case failed, and a later case of its partition and a case of a later
\* partition succeeded and are in the results.
C4_Witness ==
  /\ pc = "done"
  /\ ResultsAreTheSuccesses
  /\ \E k \in Failed :
       /\ \E l \in Succeeded : PartitionOf(l) = PartitionOf(k) /\ l > k
       /\ \E l \in Succeeded : PartitionOf(l) > PartitionOf(k)

(***************************************************************************)
(* C5: for every configured limit the run terminates: a run that has not   *)
(* ended can always take a step.                                           *)
(***************************************************************************)
C5_Terminates == Terminated \/ ENABLED Next

(***************************************************************************)
(* C6 as stated: every run that generated at least one test case ends with *)
(* a summary, whose failed count is the number of failed cases and whose   *)
(* successful and failed counts add up to the total.                       *)
(***************************************************************************)
C6_SummaryAlways ==
  (pc = "done" /\ Len(testCases) >= 1) =>
    /\ summary # << >>
    /\ summary[1].failedTests = Cardinality(Failed)
    /\ summary[1].successfulTests + summary[1].failedTests = summary[1].totalTests

(***************************************************************************)
(* C6 amended: a run that ends with at least one successful test case ends *)
(* with a summary of the total, successful and failed counts (failed being *)
(* the number of failed cases); a run in which no test case succeeded ends *)
(* without a summary.                                                      *)
(***************************************************************************)
C6_SummaryWhenResults ==
  pc = "done" =>
    IF Succeeded # {}
    THEN summary = << [totalTests |-> Len(testCases),
                       successfulTests |-> Cardinality(Succeeded),
                       failedTests |-> Cardinality(Failed)] >>
    ELSE summary = << >>

C6_Witness ==
  /\ pc = "done"
  /\ Succeeded # {}
  /\ Failed # {}
  /\ summary # << >>

(***************************************************************************)
(* C7: sliding window: whenever cases are unscheduled and fewer than limit *)
(* cases are in the in-progress set, the scheduler can go on at once,      *)
(* whatever the other in-flight cases do; and the cases of a partition are *)
(* admitted in generation order.                                           *)
(***************************************************************************)
C7_SlidingWindow ==
  /\ (/\ pc \in {"schedule", "waiting"}
      /\ i <= Len(Cases)
      /\ PositiveLimit
      /\ Cardinality(inProgress) < concurrencyLimit.val)
     => (ENABLED SlotFreed \/ ENABLED Admit)
  /\ pc \in {"schedule", "waiting", "draining"} =>
       \A n \in 1..Len(Cases) : (st[Cases[n]] # "pending") <=> n < i

\* The third case runs next to the first one: the second one freed its slot.
C7_Witness ==
  /\ pc \in {"schedule", "waiting", "draining"}
  /\ PositiveLimit
  /\ concurrencyLimit.val = 2
  /\ Len(Cases) >= 3
  /\ Cases[1] \in InFlight
  /\ Cases[2] \in Settled
  /\ Cases[3] \in InFlight

(***************************************************************************)
(* C8: for an active user prompt, when the corpus holds a system unit of   *)
(* the same base name, the system message sent is that unit's content      *)
(* followed by the document text.                                          *)
(***************************************************************************)
SentUserCases ==
  {k \in DOMAIN sent : sent[k] # << >> /\ testCases[k].promptContent.type = "user"}

MatchingSystemUnits(k) ==
  {n \in 1..Len(prompts) : /\ prompts[n].type = "system"
                           /\ prompts[n].name = testCases[k].promptContent.name}

SystemUnits == {n \in 1..Len(prompts) : prompts[n].type = "system"}

C8_ExactSystemMatch ==
  \A k \in SentUserCases :
    \A n \in MatchingSystemUnits(k) :
      sent[k][1] = [role |-> "system",
                    content |-> prompts[n].content \o testCases[k].documentContent]

(***************************************************************************)
(* C9: for an active user prompt without a system unit of its base name,   *)
(* when the corpus holds a system unit, the system message sent is built   *)
(* from the first-seen system unit.                                        *)
(***************************************************************************)
FirstSystemUnit == CHOOSE n \in SystemUnits : \A o \in SystemUnits : n <= o

C9_FallbackSystemSent ==
  \A k \in SentUserCases :
    (MatchingSystemUnits(k) = {} /\ SystemUnits # {}) =>
      sent[k][1] = [role |-> "system",
                    content |-> prompts[FirstSystemUnit].content
                                  \o testCases[k].documentContent]

(***************************************************************************)
(* C10: the messages of a user prompt are one system message, one user     *)
(* message, then at most one assistant message, which is there only when   *)
(* an assistant unit of the same base name exists; the messages of a       *)
(* legacy prompt are a single user message, the prompt text followed by    *)
(* the document text.                                                      *)
(***************************************************************************)
Roles(messages) == [n \in 1..Len(messages) |-> messages[n].role]

C10_PlanShape ==
  \A k \in DOMAIN sent :
    sent[k] # << >> =>
      IF testCases[k].promptContent.type = "user"
      THEN /\ Roles(sent[k]) \in {<<"system", "user">>, <<"system", "user", "assistant">>}
           /\ Len(sent[k]) = 3 =>
                \E n \in 1..Len(prompts) :
                  /\ prompts[n].type = "assistant"
                  /\ prompts[n].name = testCases[k].promptContent.name
      ELSE sent[k] = << [role |-> "user",
                         content |-> testCases[k].promptContent.content
                                       \o testCases[k].documentContent] >>

\* A plan with an assistant message and a legacy plan have been sent.
C10_Witness ==
  /\ \E k \in SentUserCases : Len(sent[k]) = 3
  /\ \E k \in DOMAIN sent :
       sent[k] # << >> /\ testCases[k].promptContent.type = "legacy"

(***************************************************************************)
(* C12: with the cache on, a response returned from the cache was produced *)
(* for the conversation the test case sends: a cache file whose response   *)
(* answered messages that differ in the document text or in the text of    *)
(* the active or of a correlated prompt is never returned as a hit.        *)
(***************************************************************************)
C12_HitAnswersSameConversation ==
  \A k \in DOMAIN st :
    st[k] = "hit" => response[k][1].madeFor = MessagesOf(testCases[k], prompts)

(***************************************************************************)
(* C13: with the cache on and no cache read or write error, no two test    *)
(* cases of a run with the same cache key both get an answer from the      *)
(* adapter, also when both are in flight at once.                          *)
(***************************************************************************)
NoCacheError ==
  \A k \in DOMAIN cacheLog : cacheLog[k] \cap {"readError", "writeError"} = {}

\* The test cases whose adapter call answered and whose answer was saved.
Answered == {k \in DOMAIN cacheLog : "wrote" \in cacheLog[k]}

C13_OneInvocationPerKey ==
  (CachingEnabled(cachingEnv) /\ NoCacheError) =>
    \A j, k \in Answered :
      j # k => CacheKeyOf(testCases[j]) # CacheKeyOf(testCases[k])

(***************************************************************************)
(* C14: when ENABLE_RESPONSE_CACHING is not 'true', every admitted test    *)
(* case invokes the adapter, none looks the cache up, and no step of the   *)
(* run changes the cache directory, whatever it holds.                     *)
(***************************************************************************)
CachingFlagOff ==
  ~(cachingEnv.defined /\ cachingEnv.chars = <<"t", "r", "u", "e">>)

C14_DisabledCacheUntouched ==
  /\ [](CachingFlagOff =>
          \A k \in DOMAIN st :
            /\ st[k] \notin {"lookup", "hit", "cached"}
            /\ started[k] >= 1 => sent[k] = MessagesOf(testCases[k], prompts))
  /\ [][CachingFlagOff => cacheDir' = cacheDir]_vars

\* A run with ENABLE_RESPONSE_CACHING=false has ended with a successful test
\* case whose key has a readable file in the cache directory.
C14_Witness ==
  /\ cachingEnv.defined
  /\ CachingFlagOff
  /\ pc = "done"
  /\ \E k \in Succeeded :
       /\ CacheKeyOf(testCases[k]) \in DOMAIN cacheDir
       /\ GetFromCache(cacheDir, CacheKeyOf(testCases[k]), TRUE) # Null

(***************************************************************************)
(* C15: cache round trip: once saveToCache has written a response under a  *)
(* key, getFromCache of that key returns a value equal to the response;    *)
(* and a cache hit returns the value that was saved under the key, without *)
(* the adapter being invoked.                                              *)
(***************************************************************************)
C15_CacheRoundTrip ==
  [][\A k \in DOMAIN st :
       LET cacheKey == CacheKeyOf(testCases[k])
       IN  /\ ("wrote" \in cacheLog'[k] /\ "wrote" \notin cacheLog[k]) =>
                GetFromCache(cacheDir', cacheKey, TRUE) = response'[k]
           /\ (st[k] = "lookup" /\ st'[k] = "hit") =>
                /\ response'[k][1].value = cacheDir[cacheKey].saved[1]
                /\ sent'[k] = << >>]_vars

\* A test case got from the cache the text completion, with its line break
\* and backslash, that another test case of the run had saved.
C15_Witness ==
  \E j, k \in DOMAIN st :
    /\ j # k
    /\ "wrote" \in cacheLog[j]
    /\ st[k] = "hit"
    /\ sent[k] = << >>
    /\ CacheKeyOf(testCases[j]) = CacheKeyOf(testCases[k])
    /\ response[k][1].value = AdapterData(TextBody, <<"7">>)

(***************************************************************************)
(* C16: a cache I/O failure never fails a test case: when the cache file   *)
(* of a test case cannot be read or does not parse, the lookup is a miss   *)
(* and the adapter is invoked; when the write of saveToCache fails, the    *)
(* adapter's response is still returned.                                   *)
(***************************************************************************)
C16_CacheErrorsSwallowed ==
  [][\A k \in DOMAIN st :
       LET cacheKey == CacheKeyOf(testCases[k])
           unreadable ==
             \/ "readError" \in cacheLog'[k]
             \/ /\ cacheKey \in DOMAIN cacheDir
                /\ ~JsonParse(cacheDir[cacheKey].text).ok
       IN  /\ (st[k] = "lookup" /\ st'[k] # "lookup" /\ unreadable) =>
                /\ st'[k] = "exec"
                /\ sent'[k] = MessagesOf(testCases[k], prompts)
                /\ pc' = pc
           /\ ("writeError" \in cacheLog'[k] /\ "writeError" \notin cacheLog[k]) =>
                /\ st'[k] = "cached"
                /\ response'[k] # Null
                /\ response'[k][1].madeFor = sent[k]
                /\ pc' = pc]_vars

\* A test case whose cache file could not be read and whose answer could
\* not be saved has succeeded, and so has one whose cache file is cut short.
C16_Witness ==
  /\ \E k \in Succeeded : {"readError", "writeError"} \subseteq cacheLog[k]
  /\ \E k \in Succeeded :
       /\ CacheKeyOf(testCases[k]) \in DOMAIN cacheDir
       /\ cacheDir[CacheKeyOf(testCases[k])] = CutShortFile
       /\ cacheLog[k] = {"writeError"}

(***************************************************************************)
(* C17: no two distinct test cases of a run write the same file: neither   *)
(* the same cache file nor the same incremental result directory, for      *)
(* every interleaving.                                                     *)
(***************************************************************************)
C17_FilesNotShared ==
  \A j, k \in DOMAIN st :
    j # k =>
      /\ (j \in Answered /\ k \in Answered) =>
           CacheFileOf(testCases[j]) # CacheFileOf(testCases[k])
      /\ (j \in Succeeded /\ k \in Succeeded) =>
           ResultDirOf(ResultOf(testCases[j], prompts), timestamp[j])
             # ResultDirOf(ResultOf(testCases[k], prompts), timestamp[k])

(***************************************************************************)
(* C18: within a run no two results have the same model, document id and   *)
(* prompt base name, for every prompt corpus; stated here for the          *)
(* configured model lists without a repeated model.                        *)
(***************************************************************************)
C18_ResultTripleUnique ==
  Injective(configured) =>
    \A a, b \in 1..Len(results) :
      a # b =>
        <<results[a].model, results[a].input_data_file, results[a].prompt_name>>
          # <<results[b].model, results[b].input_data_file, results[b].prompt_name>>

(***************************************************************************)
(* C19: parseJsonFromResponse returns a parsed JSON object, a parsed JSON  *)
(* array or exactly the text of the response, and no value of another      *)
(* kind.                                                                   *)
(***************************************************************************)
C19_ObjectArrayOrText ==
  parsed # << >> =>
    \/ parsed[1][1] \in {"obj", "arr"}
    \/ parsed[1] = JStr(ResponseText(parseArg))

(***************************************************************************)
(* C20: the approaches are applied in the order direct parse, object span  *)
(* with the fence markers removed, array span, repair and object span; the *)
(* value returned is the value of the first approach that parses, and the  *)
(* text when none does; a span of the second or third approach that does   *)
(* not parse does not end the search.                                      *)
(***************************************************************************)
ApproachResult(n, text) ==
  CASE n = 1 -> Approach1(text)
    [] n = 2 -> Approach2(text)
    [] n = 3 -> Approach3(text)
    [] n = 4 -> Approach4(text)

C20_FirstParsingApproach ==
  parsed # << >> =>
    LET text == ResponseText(parseArg)
        parsing == {n \in 1..4 : ApproachResult(n, text).ok}
    IN  parsed[1] = IF parsing = {} THEN JStr(text)
                    ELSE ApproachResult(Least(parsing), text).val

\* The object span and the array span were found and did not parse, and the
\* repaired text gave the value returned.
C20_Witness ==
  /\ parsed # << >>
  /\ ~Approach1(ResponseText(parseArg)).ok
  /\ MatchSpan(ResponseText(parseArg), "{", "}") # << >>
  /\ ~Approach2(ResponseText(parseArg)).ok
  /\ MatchSpan(ResponseText(parseArg), "[", "]") # << >>
  /\ ~Approach3(ResponseText(parseArg)).ok
  /\ Approach4(ResponseText(parseArg)).ok
  /\ parsed[1] = JObj(<< << <<"a">>, JNum(<<"1">>) >> >>)

(***************************************************************************)
(* C26: a run is aborted, before any test case is admitted, exactly when   *)
(* no configured model is available, the prompt corpus is empty or the     *)
(* document corpus is empty; every other run goes on to its end whatever   *)
(* fails on the way, with every generated test case processed.             *)
(***************************************************************************)
NothingToRun ==
  \/ \A n \in 1..Len(configured) : configured[n] \notin available
  \/ promptDir = << >>
  \/ dataDir = << >>

C26_OnlyCorpusOrModelsFatal ==
  /\ [](pc = "aborted" => NothingToRun /\ testCases = << >>)
  /\ [](NothingToRun => pc \in {"start", "aborted"})
  /\ (~NothingToRun) ~>
       (/\ pc = "done"
        /\ \A k \in DOMAIN started : started[k] = 1
        /\ Settled = DOMAIN st)

(***************************************************************************)
(* C28: the system and assistant prompts a result names are exactly the    *)
(* prompt units whose content was placed in the conversation sent for its  *)
(* test case; no system prompt is named when the default system message or *)
(* a legacy single-message plan was used.                                  *)
(***************************************************************************)
\* The units of a role whose text, followed by the document, is the content
\* of a message of that role in the conversation of test case k.
PlacedUnits(k, role) ==
  {prompts[n].key : n \in
     {o \in 1..Len(prompts) :
        /\ prompts[o].type = role
        /\ \E j \in 1..Len(sent[k]) :
             /\ sent[k][j].role = role
             /\ sent[k][j].content
                  = prompts[o].content \o testCases[k].documentContent}}

NamedUnits(k, role) ==
  LET result == ResultOf(testCases[k], prompts)
      named == IF role = "system" THEN result.input_system_prompt
               ELSE result.input_assistant_prompt
  IN  IF named = Null THEN {} ELSE {named}

\* No two prompt files hold the same text, so that a message tells its unit.
DistinctTexts ==
  \A a, b \in 1..Len(prompts) :
    a # b => prompts[a].content # prompts[b].content

C28_RecordedPromptsWereSent ==
  DistinctTexts =>
    \A k \in DOMAIN sent :
      sent[k] # << >> =>
        /\ NamedUnits(k, "system") = PlacedUnits(k, "system")
        /\ NamedUnits(k, "assistant") = PlacedUnits(k, "assistant")

(***************************************************************************)
(* C30: when CONCURRENCY_LIMIT is absent, empty or not a positive integer, *)
(* the test cases in flight are never more than the default limit.         *)
(***************************************************************************)
IsPositiveInteger(chars) ==
  /\ chars # << >>
  /\ \A n \in 1..Len(chars) : IsDigit(chars[n])
  /\ \E n \in 1..Len(chars) : chars[n] # "0"

C30_DefaultCeiling ==
  (~env.defined \/ ~IsPositiveInteger(env.chars)) =>
    Cardinality(InFlight) <= ParseInt(DefaultConcurrencyLimit).val

(***************************************************************************)
(* C25: the individual write of a result is issued and has returned before *)
(* the result enters a result set and before its slot is released; a case  *)
(* whose write is under way still holds its slot; and the batch write at   *)
(* the end of the run happens only when every partition has drained.       *)
(***************************************************************************)
Range(f) == {f[x] : x \in DOMAIN f}

InResultSet(k) ==
  ResultOf(testCases[k], prompts)
    \in Range(modelResults) \cup Range(allResults) \cup Range(results)

C25_WriteThrough ==
  /\ \A k \in DOMAIN st :
       /\ InResultSet(k) => sink[k] \in {"written", "failed"}
       /\ sink[k] = "issued" => k \in inProgress /\ ~InResultSet(k)
       /\ k \in Succeeded => sink[k] \in {"written", "failed"}
  /\ summary # << >> =>
       /\ Settled = DOMAIN st
       /\ inProgress = {}
       /\ m = Len(testCasesByModel)

\* One result is written and in the result set while the write of another
\* case is under way.
C25_Witness ==
  /\ pc \in {"schedule", "waiting", "draining"}
  /\ \E k, l \in DOMAIN st :
       /\ sink[k] = "written" /\ InResultSet(k)
       /\ sink[l] = "issued" /\ l \in inProgress

(***************************************************************************)
(* C21: a value returned by parseJsonFromResponse that is not an object    *)
(* (an array counts as an object, as it does in JavaScript) is scored as   *)
(* the object {raw_text: value}, and an object is scored as it is: the     *)
(* evaluators never receive a value that is not an object.                 *)
(***************************************************************************)
C21_NonObjectsScoredAsRawText ==
  evaluation # << >> =>
    LET value == parsed[1]
        scored == evaluation[1].evaluated.parsedResult
    IN  IF value[1] \in {"obj", "arr"}
        THEN scored = value
        ELSE scored = JObj(<< <<RawTextKey, value>> >>)

(***************************************************************************)
(* C22: when the evaluator fails internally, the test case still has an    *)
(* evaluation, whose quantitative metrics are zero and whose quantitative  *)
(* errors list is not empty, so that the errors count of the recorded      *)
(* result is not zero.                                                     *)
(***************************************************************************)
EvaluatorFailed ==
  evaluation # << >> /\ evaluation[1].evaluated.quantitative.errors # << >>

C22_EvaluatorFailureRecorded ==
  EvaluatorFailed =>
    LET quantitative == evaluation[1].returned.quantitative
    IN  /\ quantitative.accuracy = 0
        /\ quantitative.completeness = 0
        /\ quantitative.relevance = 0
        /\ quantitative.overall = 0
        /\ "errors" \in DOMAIN quantitative
        /\ ErrorsCount(quantitative) > 0

(***************************************************************************)
(* Vocabulary of the report.                                               *)
(***************************************************************************)
MetricNames == {"overall", "accuracy", "completeness", "relevance"}

RECURSIVE TotalOver(_, _)
TotalOver(S, metric) ==
  IF S = {} THEN 0
  ELSE LET k == CHOOSE x \in S : TRUE
       IN  reportArg[k].quantitative[metric] + TotalOver(S \ {k}, metric)

\* printed is the value of the given digits nearest to the mean of the
\* metric over the results S.
IsRoundedMean(printed, S, metric, digits) ==
  LET den == Cardinality(S) * MetricUnit
      scaled == TotalOver(S, metric) * 10^digits
  IN  /\ printed.digits = digits
      /\ 2 * (printed.n * den - scaled) <= den
      /\ 2 * (scaled - printed.n * den) <= den

ResultsOfModel(mdl) == {k \in 1..Len(reportArg) : reportArg[k].model = mdl}

\* C23: the model comparison has one row for every model with a result and
\* no other row, and each metric of the row of a model is the arithmetic
\* mean of that metric over exactly the results of that model, printed
\* with 4 fraction digits; a model without a result has no row, so no
\* average divides by zero.
C23_PerModelAverages ==
  report # << >> =>
    LET rows == report[1].modelRows
    IN  /\ \A g \in 1..Len(rows) : ResultsOfModel(rows[g].model) # {}
        /\ \A mdl \in Models :
             ResultsOfModel(mdl) # {} =>
               /\ Cardinality({g \in 1..Len(rows) : rows[g].model = mdl}) = 1
               /\ \A g \in 1..Len(rows) :
                    rows[g].model = mdl =>
                      \A metric \in MetricNames :
                        IsRoundedMean(rows[g].metrics[metric],
                                      ResultsOfModel(mdl), metric,
                                      FRACTION_DIGITS)

\* A model has three results whose mean overall score has more than 4
\* fraction digits and is printed rounded up.
C23_Witness ==
  /\ report # << >>
  /\ \E g \in 1..Len(report[1].modelRows) :
       LET S == ResultsOfModel(report[1].modelRows[g].model)
       IN  /\ Cardinality(S) = 3
           /\ report[1].modelRows[g].metrics.overall.n * 3 * MetricUnit
                > TotalOver(S, "overall") * 10^FRACTION_DIGITS

FamilyOf(result) == <<result.prompt_type, result.prompt_name>>

Families == {FamilyOf(reportArg[k]) : k \in 1..Len(reportArg)}

ResultsOfFamily(family) ==
  {k \in 1..Len(reportArg) : FamilyOf(reportArg[k]) = family}

\* C24: the prompt comparison has one row for every prompt family with a
\* result, and the metrics of the row of a family are the arithmetic means
\* over exactly the results of that family, printed with 4 fraction digits.
C24_PerFamilyAverages ==
  report # << >> =>
    LET rows == report[1].promptRows
    IN  /\ Len(rows) = Cardinality(Families)
        /\ \A family \in Families :
             \E g \in 1..Len(rows) :
               \A metric \in MetricNames :
                 IsRoundedMean(rows[g].metrics[metric],
                               ResultsOfFamily(family), metric,
                               FRACTION_DIGITS)

(***************************************************************************)
(* Vocabulary of the correlator.                                           *)
(***************************************************************************)
Recorded == {k \in DOMAIN recording :
               /\ recording[k].pc = "returned"
               /\ Truthy(recording[k].entry.resultPath)}

SameCorrelation(entry, other) ==
  /\ entry # Null
  /\ entry.modelId = other.modelId
  /\ entry.input_data_file = other.input_data_file
  /\ entry.input_user_prompt = other.input_user_prompt

\* C27: once recordCorrelation has returned the id of a correlation with a
\* result path, getCorrelationById of that id returns an entry of the same
\* model, data file and user prompt, and every getAllCorrelations that
\* returns from then on has an entry of that id.
C27_CorrelationRoundTrip ==
  /\ [](\A k \in Recorded :
          (/\ query # << >>
           /\ query[1].asked = "getCorrelationById"
           /\ query[1].id = recording[k].entry.id)
          => SameCorrelation(query[1].returned, recording[k].entry))
  /\ [][\A k \in Recorded :
          (query' # query /\ query'[1].asked = "getAllCorrelations")
          => \E n \in 1..Len(query'[1].returned) :
               query'[1].returned[n].id = recording[k].entry.id]_vars

AllReturned ==
  /\ Len(recording) = Len(correlations)
  /\ \A k \in DOMAIN recording : recording[k].pc = "returned"

\* C29: when every recordCorrelation call has returned, the master file
\* holds the entry of every call with a result path, one entry a call.
C29_NoLostUpdate ==
  AllReturned =>
    /\ Len(resultsDir.master) = Cardinality(Recorded)
    /\ \A k \in Recorded :
         \E n \in 1..Len(resultsDir.master) :
           resultsDir.master[n] = recording[k].entry


====
